---------------------------- MODULE Spec2Model ----------------------------
(***************************************************************************)
(* A model of the commit path of AptosDB (storage/aptosdb/src/lib.rs):     *)
(* save_transactions, save_transactions_impl, seal_change_set, commit,     *)
(* wake_pruner, and of the read path get_transaction_with_proof.           *)
(*                                                                         *)
(* The key-value engine is one map from (column family, key) to value; a   *)
(* ChangeSet is the ordered list of writes staged by one call, and         *)
(* write_schemas applies a whole list in one step.  Hashes are modelled    *)
(* injectively: the hash of a value is the value, and the root of the      *)
(* transaction accumulator over leaves 0..v is the sequence of those       *)
(* leaves.                                                                 *)
(***************************************************************************)
EXTENDS Integers, Sequences, FiniteSets, TLC

\* ------------------------------------------------------------------ bounds

\* Versions a committed transaction may get are 0..MaxVersion.
MaxVersion == 1

\* Longest txns_to_commit of one call.
MaxBatch == 2

\* Number of distinct TransactionToCommit contents.
NumPayloads == 2

\* Total number of save_transactions calls in one behaviour.
MaxCalls == 2

\* Total number of VerifiedStateView::get calls in one behaviour.
MaxGets == 3

\* Width of the model's u64.
U64Bits == 13

U64Mod == 2 ^ U64Bits

U64_MAX == U64Mod - 1

\* ------------------------------------------------------------ basic values

\* Option<T>: None is the empty sequence, Some(x) the one-element sequence.
None == << >>

Some(x) == << x >>

IsSome(o) == Len(o) = 1

Unwrap(o) == o[1]

Committers == {"c1"}

Versions == 0 .. MaxVersion

Payloads == 1 .. NumPayloads

\* Column families written by the commit path (AptosDB::column_families).
JELLYFISH_MERKLE_NODE_CF_NAME == "jellyfish_merkle_node"

EVENT_CF_NAME == "event"

TRANSACTION_CF_NAME == "transaction"

WRITE_SET_CF_NAME == "write_set"

TRANSACTION_INFO_CF_NAME == "transaction_info"

TRANSACTION_ACCUMULATOR_CF_NAME == "transaction_accumulator"

LEDGER_INFO_CF_NAME == "default"

LEDGER_COUNTERS_CF_NAME == "ledger_counters"

\* The families that hold one entry per committed version.
PerVersionCFs ==
    { JELLYFISH_MERKLE_NODE_CF_NAME, EVENT_CF_NAME, TRANSACTION_CF_NAME,
      WRITE_SET_CF_NAME, TRANSACTION_INFO_CF_NAME,
      TRANSACTION_ACCUMULATOR_CF_NAME, LEDGER_COUNTERS_CF_NAME }

\* --------------------------------------------------------- u64 arithmetic

AddOverflows(a, b) == a + b > U64_MAX

WrappingAdd(a, b) == (a + b) % U64Mod

SubOverflows(a, b) == a < b

WrappingSub(a, b) == (a - b + U64Mod) % U64Mod

\* ---------------------------------------------------- TransactionToCommit

\* The c-th TransactionToCommit.  Its fields are tagged so that no two
\* fields, and no two payloads, carry the same value.
TransactionInfoOf(c) ==
    [ transaction_hash |-> << "T", c >>,
      state_root_hash  |-> << "S", c >>,
      event_root_hash  |-> [ i \in 1 .. (c - 1) |-> << "E", c, i >> ],
      status           |-> IF c % 2 = 1 THEN "Keep" ELSE "Discard" ]

TransactionToCommit(c) ==
    [ transaction           |-> << "T", c >>,
      state_store_value_set |-> << "S", c >>,
      events                |-> [ i \in 1 .. (c - 1) |-> << "E", c, i >> ],
      write_set             |-> << "W", c >>,
      transaction_info      |-> TransactionInfoOf(c) ]

RECURSIVE SeqsUpTo(_, _)
\* All sequences over S of length at most n.
SeqsUpTo(S, n) ==
    IF n = 0 THEN { << >> }
    ELSE LET shorter == SeqsUpTo(S, n - 1)
         IN  shorter \cup { Append(s, x) : s \in shorter, x \in S }

SeqsOfLen(S, n) == { s \in SeqsUpTo(S, n) : Len(s) = n }

\* The inputs of save_transactions.
Batches ==
    { [ i \in 1 .. Len(s) |-> TransactionToCommit(s[i]) ] :
        s \in SeqsUpTo(Payloads, MaxBatch) }

FirstVersions == (0 .. (MaxVersion + 1)) \cup { U64_MAX }

\* A root over n leaves.
RootsOfLen(n) ==
    { [ i \in 1 .. Len(s) |-> TransactionInfoOf(s[i]) ] :
        s \in SeqsOfLen(Payloads, n) }

\* LedgerInfoWithSignatures: the version it attests and the accumulator root
\* at that version (a root over version + 1 leaves).  A ledger info at
\* version U64_MAX carries the empty root.
LedgerInfos ==
    UNION { { [ version |-> v, transaction_accumulator_hash |-> r ] :
                r \in RootsOfLen(v + 1) } : v \in Versions }
    \cup { [ version |-> U64_MAX, transaction_accumulator_hash |-> << >> ] }

\* ------------------------------------------------- the verified state view

\* The threads that read through one VerifiedStateView.
Threads == { "t1", "t2" }

\* The accounts and the paths inside an account that are read.
Addresses == { "a1", "a2" }

Paths == { "p1", "p2" }

\* The account state blobs; "garbage" does not deserialize, "default" is
\* the default (empty) value.
Blobs == { "b1", "b2", "garbage", "default" }

\* AccountState::try_from(blob).unwrap_or_default().get(path).cloned()
Field(blob, path) ==
    CASE blob = "b1" -> IF path = "p1" THEN Some("x") ELSE None
      [] blob = "b2" -> IF path = "p1" THEN Some("y") ELSE Some("z")
      [] OTHER -> None

\* SPARSE_MERKLE_PLACEHOLDER_HASH, the root of the empty tree.
SPARSE_MERKLE_PLACEHOLDER_HASH == "placeholder"

\* The state roots, and the account states each of them commits to.
Roots == { SPARSE_MERKLE_PLACEHOLDER_HASH, "r1", "r2" }

StateAt(root) ==
    CASE root = "r1" -> [ a \in Addresses |-> IF a = "a1" THEN Some("b1") ELSE None ]
      [] root = "r2" -> [ a \in Addresses |->
                            IF a = "a1" THEN Some("b2") ELSE Some("garbage") ]
      [] OTHER -> [ a \in Addresses |-> None ]

\* SparseMerkleProof::new(None, vec![]): no leaf, no siblings.
EmptyProof == [ root |-> SPARSE_MERKLE_PLACEHOLDER_HASH, key |-> "none", value |-> None ]

\* The proofs that exist: a proof authenticates, under a root, what the state
\* of that root holds at a key (hashes are collision-free).
Proofs ==
    { EmptyProof } \cup
    { [ root |-> r, key |-> k, value |-> StateAt(r)[k] ] :
        r \in Roots \ { SPARSE_MERKLE_PLACEHOLDER_HASH }, k \in Addresses }

\* SparseMerkleProof::verify(expected_root_hash, element_key, element_value)
verify(proof, expected_root_hash, element_key, element_value) ==
    /\ proof.root = expected_root_hash
    /\ proof.value = element_value
    /\ proof = EmptyProof \/ proof.key = element_key

\* What a DbReader may answer to get_value_with_proof_by_version.
ReaderAnswers ==
    { [ value |-> v, proof |-> pr ] :
        v \in { None } \cup { Some(b) : b \in Blobs \ { "default" } }, pr \in Proofs }

\* FrozenSparseMerkleTree::get: what the overlay may answer for a key.
StateStoreStatuses ==
    { [ status |-> "ExistsInScratchPad", blob |-> b ] : b \in { "b1", "b2" } } \cup
    { [ status |-> st, blob |-> "default" ] :
        st \in { "DoesNotExist", "ExistsInDB", "Unknown" } }

\* The outcome of a get: Ok(value), the proof error naming the address and
\* the root, or the reader's error.
GetResult(kind, value, address, root) ==
    [ kind |-> kind, value |-> value, address |-> address, root |-> root ]

\* RwLock::new for both caches: the threads holding a read guard of
\* state_cache, its write guard, and the write guard of state_proof_cache.
Unlocked ==
    [ state_cache_readers |-> {}, state_cache_writer |-> {},
      state_proof_cache_writer |-> {} ]

\* A thread before its first get.
IdleGet ==
    [ pc |-> "idle", address |-> "a1", path |-> "p1", value |-> None,
      proof |-> None, queried |-> FALSE, result |-> None, n |-> 0 ]

\* PRE_GENESIS_VERSION, u64::max_value().
PRE_GENESIS_VERSION == U64_MAX

\* or_else's closure leaving the version as given.
PersistentVersionAsGiven(version, root) == version

\* latest_persistent_version.or_else(..): the version is PRE_GENESIS_VERSION
\* when none is given and the root is not the placeholder.
PersistentVersion(version, root) ==
    IF IsSome(version) THEN version
    ELSE IF root # SPARSE_MERKLE_PLACEHOLDER_HASH THEN Some(PRE_GENESIS_VERSION)
    ELSE None

\* VerifiedStateView::new; given_version records the argument the view was
\* constructed with.
VerifiedStateView_new(version, root, speculative_state) ==
    [ given_version |-> version,
      latest_persistent_version |-> PersistentVersion(version, root),
      latest_persistent_state_root |-> root,
      speculative_state |-> speculative_state ]

\* VerifiedStateView::is_genesis
is_genesis(v) == ~IsSome(v.latest_persistent_version)

\* ------------------------------------------------------------------ state

VARIABLES
    db,                  \* the engine: (column family, key...) -> value
    latest_ledger_info,  \* LedgerStore's in-memory latest ledger info
    metrics,             \* the gauges and counters save_transactions sets
    pruner,              \* None (no-op config) or Some(wake-ups received)
    overflow_checks,     \* whether the build panics on integer overflow
    calls,               \* save_transactions calls started so far
    pc,                  \* per committer: where its call stands
    args,                \* per committer: the arguments of its call
    cs,                  \* per committer: the ChangeSet's batch, in order
    last_version,        \* per committer: save_transactions_impl's local
    new_root_hash,       \* per committer: root returned by the impl
    counters,            \* per committer: Option<LedgerCounters> of the seal
    result,              \* per committer: outcome of its finished call
    before,              \* per committer: the shared state at call entry
    reader,              \* the reader's get_transaction_by_version call
    history,             \* the batches written so far, in order
    view,                \* the VerifiedStateView's immutable fields
    state_cache,         \* the view's value cache: key -> blob
    state_proof_cache,   \* the view's proof cache: key hash -> proof
    gets,                \* per thread: its VerifiedStateView::get call
    locks,               \* the guards held on the RwLocks of the two caches
    page,                \* the last paged read: its call and its outcome
    rocksdb_property_reporter  \* the reporter thread, its channel and its owner

committer_vars ==
    << latest_ledger_info, metrics, pruner, overflow_checks, calls,
       pc, args, cs, last_version, new_root_hash, counters, result, before >>

view_vars == << view, state_cache, state_proof_cache, gets, locks >>

vars == << db, committer_vars, reader, history, view_vars, page,
          rocksdb_property_reporter >>

shared == << db, latest_ledger_info, metrics, pruner >>

\* ----------------------------------------------------------- the engine

EmptyDB == [ k \in {} |-> None ]

\* DB::get: the value under (cf, key), where key is a tuple.
Get(d, cf, key) ==
    IF (<< cf >> \o key) \in DOMAIN d THEN Some(d[<< cf >> \o key]) ELSE None

\* SchemaBatch::put: one staged write.
Put(cf, key, value) == [ key |-> << cf >> \o key, value |-> value ]

RECURSIVE write_schemas(_, _)
\* DB::write_schemas: every write of the batch, in order, in one step.
write_schemas(d, batch) ==
    IF batch = << >> THEN d
    ELSE write_schemas((Head(batch).key :> Head(batch).value) @@ d, Tail(batch))

\* Versions with an entry in family cf.
VersionsIn(d, cf) == { k[2] : k \in { x \in DOMAIN d : x[1] = cf } }

\* ------------------------------------------------------------ the stores

\* StateStore::put_value_sets: one state snapshot per version, from
\* first_version on.
put_value_sets(sets, first_version) ==
    [ i \in 1 .. Len(sets) |->
        Put(JELLYFISH_MERKLE_NODE_CF_NAME,
            << WrappingAdd(first_version, i - 1) >>, sets[i]) ]

\* EventStore::put_events: the events of one version, keyed (version, index).
put_events(ver, events) ==
    [ i \in 1 .. Len(events) |-> Put(EVENT_CF_NAME, << ver, i - 1 >>, events[i]) ]

\* TransactionStore::put_transaction.
put_transaction(ver, txn) == Put(TRANSACTION_CF_NAME, << ver >>, txn)

\* TransactionStore::put_write_set.
put_write_set(ver, write_set) == Put(WRITE_SET_CF_NAME, << ver >>, write_set)

\* The accumulator root over the leaves before first_version, read from the
\* engine: the empty root for first_version = 0, None when it is not stored.
BaseRoot(d, first_version) ==
    IF first_version = 0 THEN Some(<< >>)
    ELSE Get(d, TRANSACTION_ACCUMULATOR_CF_NAME, << first_version - 1 >>)

\* LedgerStore::put_transaction_infos, given the base root: the infos and the
\* accumulator root after each of them.
put_transaction_infos(base, first_version, infos) ==
    [ i \in 1 .. (2 * Len(infos)) |->
        IF i <= Len(infos)
        THEN Put(TRANSACTION_INFO_CF_NAME,
                 << WrappingAdd(first_version, i - 1) >>, infos[i])
        ELSE Put(TRANSACTION_ACCUMULATOR_CF_NAME,
                 << WrappingAdd(first_version, i - Len(infos) - 1) >>,
                 base \o SubSeq(infos, 1, i - Len(infos))) ]

\* LedgerStore::put_ledger_info.
put_ledger_info(li) == Put(LEDGER_INFO_CF_NAME, << li.version >>, li)

\* The counter bump a batch holds for version ver: the events created.
counter_bumps(batch, ver) ==
    Cardinality({ i \in 1 .. Len(batch) :
                    /\ batch[i].key[1] = EVENT_CF_NAME
                    /\ batch[i].key[2] = ver })

RECURSIVE SumBumps(_, _, _)
\* The bumps of the n versions from first_version on.
SumBumps(batch, first_version, n) ==
    IF n = 0 THEN 0
    ELSE SumBumps(batch, first_version, n - 1)
         + counter_bumps(batch, WrappingAdd(first_version, n - 1))

\* The base counters: those of first_version - 1, the default when first_version
\* is 0 or none are stored.
BaseCounters(d, first_version) ==
    IF first_version = 0 THEN 0
    ELSE LET c == Get(d, LEDGER_COUNTERS_CF_NAME, << first_version - 1 >>)
         IN  IF IsSome(c) THEN Unwrap(c) ELSE 0

\* SystemStore::bump_ledger_counters: the counter snapshot of each version.
bump_ledger_counters(d, batch, first_version, n) ==
    [ i \in 1 .. n |->
        Put(LEDGER_COUNTERS_CF_NAME, << WrappingAdd(first_version, i - 1) >>,
            BaseCounters(d, first_version) + SumBumps(batch, first_version, i)) ]

\* The number of items of first_version..=last_version.
RangeLen(first_version, last) ==
    IF first_version <= last THEN last - first_version + 1 ELSE 0

RECURSIVE Flatten(_)
\* The concatenation of a sequence of sequences.
Flatten(ss) == IF ss = << >> THEN << >> ELSE Head(ss) \o Flatten(Tail(ss))

\* ------------------------------------------------------- the commit path

\* The column families whose properties the reporter samples, by number.
NumColumnFamilies == 3

\* RocksdbPropertyReporter::new: the thread is spawned and about to sample
\* for the first time, the channel is empty and the owner holds the sender.
\* cf counts the column families sampled in the current round, samples the
\* rounds begun, timeouts the receive timeouts, failed the rounds that ended
\* with the warning of an error.
SpawnedReporter ==
    [ thread |-> "sample", cf |-> 0, samples |-> 0, timeouts |-> 0, failed |-> 0,
      channel |-> 0, sent |-> 0, owner |-> "alive" ]

\* No paged read was made yet.
NoPage == [ api |-> "none", args |-> << >>, result |-> None, observations |-> << >> ]

\* The reader before its first call.
IdleReader ==
    [ pc |-> "idle", version |-> 0, ledger_version |-> 0, fetch_events |-> FALSE,
      latest_at_entry |-> None, proof |-> None, transaction |-> None,
      events |-> None, result |-> "None" ]

Init ==
    /\ db = EmptyDB
    /\ latest_ledger_info = None
    /\ metrics = [ ledger_version |-> None, committed_txns |-> 0,
                   latest_txn_version |-> None, ledger_counters |-> None,
                   latest_account_count |-> None,
                   get_leaf_count |-> None ]
    /\ pruner \in { None, Some(<< >>) }
    /\ overflow_checks \in BOOLEAN
    /\ calls = 0
    /\ pc = [ p \in Committers |-> "idle" ]
    /\ args = [ p \in Committers |-> None ]
    /\ cs = [ p \in Committers |-> << >> ]
    /\ last_version = [ p \in Committers |-> 0 ]
    /\ new_root_hash = [ p \in Committers |-> << >> ]
    /\ counters = [ p \in Committers |-> None ]
    /\ result = [ p \in Committers |-> "None" ]
    /\ before = [ p \in Committers |-> None ]
    /\ reader = IdleReader
    /\ history = << >>
    /\ view = VerifiedStateView_new(None, SPARSE_MERKLE_PLACEHOLDER_HASH,
                                    [ a \in Addresses |->
                                        [ status |-> "Unknown", blob |-> "default" ] ])
    /\ state_cache = << >>
    /\ state_proof_cache = << >>
    /\ locks = Unlocked
    /\ gets = [ t \in Threads |-> IdleGet ]
    /\ rocksdb_property_reporter = SpawnedReporter
    /\ page = NoPage

\* The locals of p's call after a step.
Local(p, npc, ncs, nlast, nroot, ncounters, nresult) ==
    /\ pc' = [ pc EXCEPT ![p] = npc ]
    /\ cs' = [ cs EXCEPT ![p] = ncs ]
    /\ last_version' = [ last_version EXCEPT ![p] = nlast ]
    /\ new_root_hash' = [ new_root_hash EXCEPT ![p] = nroot ]
    /\ counters' = [ counters EXCEPT ![p] = ncounters ]
    /\ result' = [ result EXCEPT ![p] = nresult ]

\* p's call returns r (or unwinds, for "Panic"): its ChangeSet is dropped.
Return(p, r) == Local(p, "done", << >>, 0, << >>, None, r)

\* p's call moves on to npc with ncs staged.
Goto(p, npc, ncs) ==
    Local(p, npc, ncs, last_version[p], new_root_hash[p], counters[p], result[p])

Txns(p) == Unwrap(args[p]).txns_to_commit

FirstVersion(p) == Unwrap(args[p]).first_version

LedgerInfoWithSigs(p) == Unwrap(args[p]).ledger_info_with_sigs

NumTxns(p) == Len(Txns(p))

\* NotEmptyCheck with the ledger info forgotten: every empty batch is refused.
NotEmptyCheckTxnsOnly(num_txns, li) == num_txns > 0

\* BatchApplicableCheck skipped for an empty batch.
BatchApplicableCheckNonEmpty(first_version, num_txns, li) ==
    (IsSome(li) /\ num_txns > 0) =>
        WrappingAdd(Unwrap(li).version, 1) = WrappingAdd(first_version, num_txns)

\* Input validation of save_transactions passes for these arguments (with the
\* build's u64 arithmetic, when nothing overflowed).
NotEmptyCheck(num_txns, li) == IsSome(li) \/ num_txns > 0

BatchApplicableCheck(first_version, num_txns, li) ==
    IsSome(li) =>
        WrappingAdd(Unwrap(li).version, 1) = WrappingAdd(first_version, num_txns)

ValidationOverflows(first_version, num_txns, li) ==
    /\ IsSome(li)
    /\ \/ AddOverflows(Unwrap(li).version, 1)
       \/ AddOverflows(first_version, num_txns)

\* DbWriter::save_transactions, up to the creation of the ChangeSet.
save_transactions(p) ==
    /\ pc[p] \in { "idle", "done" }
    /\ calls < MaxCalls
    /\ \E txns \in Batches, first_version \in FirstVersions,
          li \in { None } \cup { Some(x) : x \in LedgerInfos } :
         LET num_txns == Len(txns) IN
         /\ IF first_version = U64_MAX THEN num_txns <= 1
            ELSE first_version + num_txns <= MaxVersion + 1
         /\ calls' = calls + 1
         /\ args' = [ args EXCEPT ![p] =
                        Some([ txns_to_commit |-> txns,
                               first_version |-> first_version,
                               ledger_info_with_sigs |-> li ]) ]
         /\ before' = [ before EXCEPT ![p] = Some(shared) ]
         /\ UNCHANGED << shared, overflow_checks >>
         /\ \/ /\ ~NotEmptyCheck(num_txns, li)
               /\ Return(p, "Err:Empty")
            \/ /\ NotEmptyCheck(num_txns, li)
               /\ ValidationOverflows(first_version, num_txns, li)
               /\ overflow_checks
               /\ Return(p, "Panic")
            \/ /\ NotEmptyCheck(num_txns, li)
               /\ ValidationOverflows(first_version, num_txns, li) => ~overflow_checks
               /\ ~BatchApplicableCheck(first_version, num_txns, li)
               /\ Return(p, "Err:NotApplicable")
            \/ /\ NotEmptyCheck(num_txns, li)
               /\ ValidationOverflows(first_version, num_txns, li) => ~overflow_checks
               /\ BatchApplicableCheck(first_version, num_txns, li)
               /\ Local(p, "impl_state", << >>, 0, << >>, None, "None")

\* A store call of p returns an engine error, which `?` propagates.
EngineError(p) ==
    /\ Return(p, "Err:Engine")
    /\ UNCHANGED << shared, overflow_checks, calls, args, before >>

\* p's call panics.
Panic(p) ==
    /\ Return(p, "Panic")
    /\ UNCHANGED << shared, overflow_checks, calls, args, before >>

\* save_transactions_impl: last_version, then the account state updates.
save_transactions_impl_state(p) ==
    /\ pc[p] = "impl_state"
    /\ LET sum  == WrappingAdd(FirstVersion(p), NumTxns(p))
           last == WrappingSub(sum, 1)
           overflows == \/ AddOverflows(FirstVersion(p), NumTxns(p))
                        \/ SubOverflows(sum, 1)
       IN  \/ /\ overflows /\ overflow_checks
              /\ Panic(p)
           \/ /\ overflows => ~overflow_checks
              /\ EngineError(p)
           \/ /\ overflows => ~overflow_checks
              /\ Local(p, "impl_events",
                       cs[p] \o put_value_sets(
                           [ i \in 1 .. NumTxns(p) |->
                               Txns(p)[i].state_store_value_set ],
                           FirstVersion(p)),
                       last, new_root_hash[p], counters[p], result[p])
              /\ UNCHANGED << shared, overflow_checks, calls, args, before >>

\* save_transactions_impl_events staging the events ahead of the state.
save_transactions_impl_events_first(p) ==
    /\ pc[p] = "impl_events"
    /\ RangeLen(FirstVersion(p), last_version[p]) = NumTxns(p)
    /\ Goto(p, "impl_txns",
            Flatten([ i \in 1 .. NumTxns(p) |->
                        put_events(FirstVersion(p) + i - 1, Txns(p)[i].events) ])
            \o cs[p])
    /\ UNCHANGED << shared, overflow_checks, calls, args, before >>

\* save_transactions_impl: the events of each version; zip_eq panics when
\* first_version..=last_version and txns_to_commit differ in length.
save_transactions_impl_events(p) ==
    /\ pc[p] = "impl_events"
    /\ \/ /\ RangeLen(FirstVersion(p), last_version[p]) # NumTxns(p)
          /\ Panic(p)
       \/ /\ RangeLen(FirstVersion(p), last_version[p]) = NumTxns(p)
          /\ EngineError(p)
       \/ /\ RangeLen(FirstVersion(p), last_version[p]) = NumTxns(p)
          /\ Goto(p, "impl_txns",
                  cs[p] \o Flatten(
                      [ i \in 1 .. NumTxns(p) |->
                          put_events(FirstVersion(p) + i - 1, Txns(p)[i].events) ]))
          /\ UNCHANGED << shared, overflow_checks, calls, args, before >>

\* save_transactions_impl_txns leaving out the transaction of the last version.
save_transactions_impl_txns_but_last(p) ==
    /\ pc[p] = "impl_txns"
    /\ Goto(p, "impl_txn_infos",
            cs[p] \o Flatten(
                [ i \in 1 .. NumTxns(p) |->
                    IF i < NumTxns(p)
                    THEN << put_transaction(FirstVersion(p) + i - 1,
                                            Txns(p)[i].transaction),
                            put_write_set(FirstVersion(p) + i - 1,
                                          Txns(p)[i].write_set) >>
                    ELSE << put_write_set(FirstVersion(p) + i - 1,
                                          Txns(p)[i].write_set) >> ]))
    /\ UNCHANGED << shared, overflow_checks, calls, args, before >>

\* save_transactions_impl: the transaction and the write set of each version.
save_transactions_impl_txns(p) ==
    /\ pc[p] = "impl_txns"
    /\ \/ EngineError(p)
       \/ /\ Goto(p, "impl_txn_infos",
                  cs[p] \o Flatten(
                      [ i \in 1 .. NumTxns(p) |->
                          << put_transaction(FirstVersion(p) + i - 1,
                                             Txns(p)[i].transaction),
                             put_write_set(FirstVersion(p) + i - 1,
                                           Txns(p)[i].write_set) >> ]))
          /\ UNCHANGED << shared, overflow_checks, calls, args, before >>

\* save_transactions_impl: the transaction accumulator; returns the new root.
\* The store fails when the root before first_version is not in the engine.
save_transactions_impl_txn_infos(p) ==
    /\ pc[p] = "impl_txn_infos"
    /\ LET base  == BaseRoot(db, FirstVersion(p))
           infos == [ i \in 1 .. NumTxns(p) |-> Txns(p)[i].transaction_info ]
       IN  \/ EngineError(p)
           \/ /\ ~IsSome(base)
              /\ Return(p, "Err:NotFound")
              /\ UNCHANGED << shared, overflow_checks, calls, args, before >>
           \/ /\ IsSome(base)
              /\ Local(p,
                       IF IsSome(LedgerInfoWithSigs(p)) THEN "check_root" ELSE "seal",
                       cs[p] \o put_transaction_infos(Unwrap(base), FirstVersion(p), infos),
                       last_version[p], Unwrap(base) \o infos, counters[p], result[p])
              /\ UNCHANGED << shared, overflow_checks, calls, args, before >>

\* check_root_hash with the batch written before the root is compared.
check_root_hash_after_write(p) ==
    /\ pc[p] = "check_root"
    /\ LET x == Unwrap(LedgerInfoWithSigs(p)) IN
       \/ /\ new_root_hash[p] # x.transaction_accumulator_hash
          /\ db' = write_schemas(db, cs[p])
          /\ Return(p, "Err:RootMismatch")
          /\ UNCHANGED << latest_ledger_info, metrics, pruner, overflow_checks,
                          calls, args, before >>
       \/ /\ new_root_hash[p] = x.transaction_accumulator_hash
          /\ Goto(p, "seal", Append(cs[p], put_ledger_info(x)))
          /\ UNCHANGED << shared, overflow_checks, calls, args, before >>

\* check_root_hash with the in-memory ledger info updated when the ledger
\* info is staged.
check_root_hash_set_latest(p) ==
    /\ pc[p] = "check_root"
    /\ LET x == Unwrap(LedgerInfoWithSigs(p)) IN
       \/ /\ new_root_hash[p] # x.transaction_accumulator_hash
          /\ Return(p, "Err:RootMismatch")
          /\ UNCHANGED << shared, overflow_checks, calls, args, before >>
       \/ /\ new_root_hash[p] = x.transaction_accumulator_hash
          /\ latest_ledger_info' = Some(x)
          /\ Goto(p, "seal", Append(cs[p], put_ledger_info(x)))
          /\ UNCHANGED << db, metrics, pruner, overflow_checks, calls, args, before >>

\* save_transactions: with a ledger info, the root check and put_ledger_info.
check_root_hash(p) ==
    /\ pc[p] = "check_root"
    /\ LET x == Unwrap(LedgerInfoWithSigs(p)) IN
       \/ /\ new_root_hash[p] # x.transaction_accumulator_hash
          /\ Return(p, "Err:RootMismatch")
          /\ UNCHANGED << shared, overflow_checks, calls, args, before >>
       \/ /\ new_root_hash[p] = x.transaction_accumulator_hash
          /\ EngineError(p)
       \/ /\ new_root_hash[p] = x.transaction_accumulator_hash
          /\ Goto(p, "seal", Append(cs[p], put_ledger_info(x)))
          /\ UNCHANGED << shared, overflow_checks, calls, args, before >>

\* seal_change_set reading the base counters for an empty batch too.
seal_change_set_reading_always(p) ==
    /\ pc[p] = "seal"
    /\ \/ EngineError(p)
       \/ /\ NumTxns(p) > 0
          /\ LET writes == bump_ledger_counters(db, cs[p], FirstVersion(p), NumTxns(p))
             IN  Local(p, "commit", cs[p] \o writes, last_version[p],
                       new_root_hash[p], Some(writes[Len(writes)].value), result[p])
          /\ UNCHANGED << shared, overflow_checks, calls, args, before >>
       \/ /\ NumTxns(p) = 0
          /\ Local(p, "commit", cs[p], last_version[p], new_root_hash[p],
                   None, result[p])
          /\ UNCHANGED << shared, overflow_checks, calls, args, before >>

\* AptosDB::seal_change_set: counters are bumped iff num_txns > 0.
seal_change_set(p) ==
    /\ pc[p] = "seal"
    /\ \/ /\ NumTxns(p) > 0
          /\ EngineError(p)
       \/ /\ NumTxns(p) > 0
          /\ LET writes == bump_ledger_counters(db, cs[p], FirstVersion(p), NumTxns(p))
             IN  Local(p, "commit", cs[p] \o writes, last_version[p],
                       new_root_hash[p], Some(writes[Len(writes)].value), result[p])
          /\ UNCHANGED << shared, overflow_checks, calls, args, before >>
       \/ /\ NumTxns(p) = 0
          /\ Local(p, "commit", cs[p], last_version[p], new_root_hash[p],
                   None, result[p])
          /\ UNCHANGED << shared, overflow_checks, calls, args, before >>

\* Where a call goes once the batch is written.
AfterWrite(p) ==
    IF IsSome(LedgerInfoWithSigs(p)) THEN "set_latest"
    ELSE IF NumTxns(p) > 0 THEN "bump" ELSE "done"

\* commit writing the batch one entry at a time.
commit_entry_by_entry(p) ==
    /\ pc[p] = "commit"
    /\ cs[p] # << >>
    /\ db' = write_schemas(db, << Head(cs[p]) >>)
    /\ IF Len(cs[p]) > 1 THEN Goto(p, "commit", Tail(cs[p]))
       ELSE IF AfterWrite(p) = "done" THEN Return(p, "Ok")
       ELSE Goto(p, AfterWrite(p), << >>)
    /\ UNCHANGED << latest_ledger_info, metrics, pruner, overflow_checks,
                    calls, args, before >>

\* AptosDB::commit: the sealed batch goes to the engine in one write.
commit(p) ==
    /\ pc[p] = "commit"
    /\ \/ EngineError(p)
       \/ /\ db' = write_schemas(db, cs[p])
          /\ IF AfterWrite(p) = "done" THEN Return(p, "Ok")
             ELSE Goto(p, AfterWrite(p), << >>)
          /\ UNCHANGED << latest_ledger_info, metrics, pruner, overflow_checks,
                          calls, args, before >>

\* set_latest_ledger_info leaving the latest ledger info alone for an empty
\* batch.
set_latest_ledger_info_with_txns_only(p) ==
    /\ pc[p] = "set_latest"
    /\ LET x == Unwrap(LedgerInfoWithSigs(p)) IN
       IF NumTxns(p) > 0
       THEN /\ latest_ledger_info' = Some(x)
            /\ metrics' = [ metrics EXCEPT !.ledger_version = Some(x.version) ]
       ELSE UNCHANGED << latest_ledger_info, metrics >>
    /\ IF NumTxns(p) > 0 THEN Goto(p, "bump", cs[p]) ELSE Return(p, "Ok")
    /\ UNCHANGED << db, pruner, overflow_checks, calls, args, before >>

\* LedgerStore::set_latest_ledger_info and the two gauges set with it.
set_latest_ledger_info(p) ==
    /\ pc[p] = "set_latest"
    /\ LET x == Unwrap(LedgerInfoWithSigs(p)) IN
       /\ latest_ledger_info' = Some(x)
       /\ metrics' = [ metrics EXCEPT !.ledger_version = Some(x.version) ]
    /\ IF NumTxns(p) > 0 THEN Goto(p, "bump", cs[p]) ELSE Return(p, "Ok")
    /\ UNCHANGED << db, pruner, overflow_checks, calls, args, before >>

\* wake_pruner announcing a version that is not committed yet.
wake_pruner_ahead(pr, latest_version) ==
    IF IsSome(pr) THEN Some(Append(Unwrap(pr), latest_version + 1)) ELSE pr

\* wake_pruner signalling the pruner twice.
wake_pruner_twice(pr, latest_version) ==
    IF IsSome(pr)
    THEN Some(Append(Append(Unwrap(pr), latest_version), latest_version)) ELSE pr

\* AptosDB::wake_pruner: a no-op without a pruner.
wake_pruner(pr, latest_version) ==
    IF IsSome(pr) THEN Some(Append(Unwrap(pr), latest_version)) ELSE pr

\* What StateStore::get_leaf_count may return: Ok(count) or an error.
LeafCounts == { [ kind |-> "Ok", count |-> 1 ], [ kind |-> "Err", count |-> 0 ] }

\* get_leaf_count(last_version).map_or(-1, |c| c as i64)
LatestAccountCount(leaf_count) ==
    IF leaf_count.kind = "Ok" THEN leaf_count.count ELSE -1

\* save_transactions, num_txns > 0: the counters, the account-count gauge
\* (metrics.get_leaf_count keeps what get_leaf_count returned for it) and the
\* pruner.
bump_and_wake(p) ==
    /\ pc[p] = "bump"
    /\ \E leaf_count \in LeafCounts :
         metrics' = [ metrics EXCEPT
                        !.committed_txns = @ + NumTxns(p),
                        !.latest_txn_version = Some(last_version[p]),
                        !.ledger_counters = counters[p],
                        !.latest_account_count = Some(LatestAccountCount(leaf_count)),
                        !.get_leaf_count = Some(leaf_count) ]
    /\ pruner' = wake_pruner(pruner, last_version[p])
    /\ Return(p, "Ok")
    /\ UNCHANGED << db, latest_ledger_info, overflow_checks, calls, args, before >>

\* One step of committer p.
Committer(p) ==
    \/ save_transactions(p)
    \/ save_transactions_impl_state(p)
    \/ save_transactions_impl_events(p)
    \/ save_transactions_impl_txns(p)
    \/ save_transactions_impl_txn_infos(p)
    \/ check_root_hash(p)
    \/ seal_change_set(p)
    \/ commit(p)
    \/ set_latest_ledger_info(p)
    \/ bump_and_wake(p)

\* -------------------------------------------------------- the read path

\* The latest committed transaction version, None for an empty ledger.
LatestVersion(d) ==
    LET vs == VersionsIn(d, TRANSACTION_INFO_CF_NAME)
    IN  IF vs = {} THEN None ELSE Some(CHOOSE v \in vs : \A w \in vs : w <= v)

\* LedgerStore::get_transaction_info_with_proof: the info of `version` and
\* the accumulator root at ledger_version it is proved against; None when
\* either is missing or version is above ledger_version.
get_transaction_info_with_proof(d, version, ledger_version) ==
    LET info == Get(d, TRANSACTION_INFO_CF_NAME, << version >>)
        root == Get(d, TRANSACTION_ACCUMULATOR_CF_NAME, << ledger_version >>)
    IN  IF version <= ledger_version /\ IsSome(info) /\ IsSome(root)
        THEN Some([ transaction_info |-> Unwrap(info),
                    ledger_root |-> Unwrap(root) ])
        ELSE None

\* TransactionStore::get_transaction.
get_transaction(d, version) == Get(d, TRANSACTION_CF_NAME, << version >>)

\* EventStore::get_events_by_version: the events stored under the version,
\* by index.
get_events_by_version(d, version) ==
    LET idx == { k[3] : k \in { x \in DOMAIN d :
                                  x[1] = EVENT_CF_NAME /\ x[2] = version } }
    IN  [ i \in 1 .. Cardinality(idx) |-> d[<< EVENT_CF_NAME, version, i - 1 >>] ]

\* The reader's call returns r.
ReaderReturn(r) ==
    reader' = [ reader EXCEPT !.pc = "done", !.result = r,
                              !.proof = None, !.transaction = None ]

\* DbReader::get_transaction_by_version: the call is entered.
get_transaction_by_version ==
    /\ reader.pc \in { "idle", "done" }
    /\ \E version \in Versions, ledger_version \in Versions, fetch_events \in BOOLEAN :
         reader' = [ IdleReader EXCEPT
                       !.pc = "info", !.version = version,
                       !.ledger_version = ledger_version,
                       !.fetch_events = fetch_events,
                       !.latest_at_entry = LatestVersion(db) ]
    /\ UNCHANGED << db, committer_vars, history >>

\* get_transaction_with_proof: the transaction info with its proof.
get_transaction_with_proof_info ==
    /\ reader.pc = "info"
    /\ LET proof == get_transaction_info_with_proof(
                        db, reader.version, reader.ledger_version)
       IN  \/ ReaderReturn("Err:Engine")
           \/ /\ ~IsSome(proof)
              /\ ReaderReturn("Err:NotFound")
           \/ /\ IsSome(proof)
              /\ reader' = [ reader EXCEPT !.pc = "txn", !.proof = proof ]
    /\ UNCHANGED << db, committer_vars, history >>

\* get_transaction_with_proof reading the transaction at ledger_version.
get_transaction_with_proof_txn_at_ledger_version ==
    /\ reader.pc = "txn"
    /\ LET transaction == get_transaction(db, reader.ledger_version)
       IN  /\ IsSome(transaction)
           /\ reader' = [ reader EXCEPT
                            !.pc = IF reader.fetch_events THEN "events" ELSE "done",
                            !.result = IF reader.fetch_events THEN @ ELSE "Ok",
                            !.transaction = transaction ]
    /\ UNCHANGED << db, committer_vars, history >>

\* get_transaction_with_proof: the transaction.
get_transaction_with_proof_txn ==
    /\ reader.pc = "txn"
    /\ LET transaction == get_transaction(db, reader.version)
       IN  \/ ReaderReturn("Err:Engine")
           \/ /\ ~IsSome(transaction)
              /\ ReaderReturn("Err:NotFound")
           \/ /\ IsSome(transaction)
              /\ reader' = [ reader EXCEPT
                               !.pc = IF reader.fetch_events THEN "events" ELSE "done",
                               !.result = IF reader.fetch_events THEN @ ELSE "Ok",
                               !.transaction = transaction ]
    /\ UNCHANGED << db, committer_vars, history >>

\* get_transaction_with_proof: the events, when asked for.
get_transaction_with_proof_events ==
    /\ reader.pc = "events"
    /\ \/ ReaderReturn("Err:Engine")
       \/ reader' = [ reader EXCEPT
                        !.pc = "done", !.result = "Ok",
                        !.events = Some(get_events_by_version(db, reader.version)) ]
    /\ UNCHANGED << db, committer_vars, history >>

\* One step of the reader.
Reader ==
    \/ get_transaction_by_version
    \/ get_transaction_with_proof_info
    \/ get_transaction_with_proof_txn
    \/ get_transaction_with_proof_events

\* The history records each batch as the engine takes it.
Record(p) ==
    history' =
        IF db' # db
        THEN Append(history, [ first_version |-> FirstVersion(p),
                               txns_to_commit |-> Txns(p) ])
        ELSE history

\* A single committer, as the facade intends.
Next ==
    \E p \in Committers :
        Committer(p) /\ Record(p)
        /\ UNCHANGED << reader, view_vars, page, rocksdb_property_reporter >>

Spec == Init /\ [][Next]_vars

\* The committer is between calls or about the engine write and what
\* follows it: everywhere but in the staging of its own ChangeSet.
AtSharedState ==
    \A p \in Committers :
        pc[p] \in { "idle", "commit", "set_latest", "bump", "done" }

\* The committer with a concurrent reader. The staging steps touch only the
\* committer's ChangeSet and the reader only reads the engine, so the two
\* commute and the reader is scheduled around the steps on shared state.
NextRead ==
    \/ Next
    \/ /\ AtSharedState
       /\ Reader
       /\ UNCHANGED << view_vars, page, rocksdb_property_reporter >>

\* The database opened without a pruner (new_with_db with prune_window None).
InitRead == Init /\ pruner = None

ReadSpec == InitRead /\ [][NextRead]_vars

\* ------------------------------------------------ VerifiedStateView::get

\* A view over an untouched database: any persistent root and version, any
\* frozen overlay; both caches empty.
ViewInit ==
    /\ db = EmptyDB
    /\ latest_ledger_info = None
    /\ metrics = [ ledger_version |-> None, committed_txns |-> 0,
                   latest_txn_version |-> None, ledger_counters |-> None,
                   latest_account_count |-> None,
                   get_leaf_count |-> None ]
    /\ pruner = None
    /\ overflow_checks = TRUE
    /\ calls = 0
    /\ pc = [ p \in Committers |-> "idle" ]
    /\ args = [ p \in Committers |-> None ]
    /\ cs = [ p \in Committers |-> << >> ]
    /\ last_version = [ p \in Committers |-> 0 ]
    /\ new_root_hash = [ p \in Committers |-> << >> ]
    /\ counters = [ p \in Committers |-> None ]
    /\ result = [ p \in Committers |-> "None" ]
    /\ before = [ p \in Committers |-> None ]
    /\ reader = IdleReader
    /\ history = << >>
    /\ \E version \in { None, Some(0) }, root \in Roots,
          speculative_state \in [ Addresses -> StateStoreStatuses ] :
         view = VerifiedStateView_new(version, root, speculative_state)
    /\ state_cache = << >>
    /\ state_proof_cache = << >>
    /\ locks = Unlocked
    /\ gets = [ t \in Threads |-> IdleGet ]
    /\ rocksdb_property_reporter = SpawnedReporter
    /\ page = NoPage

\* HashMap::insert: the entry of key k is replaced.
Insert(m, k, v) == (k :> v) @@ m

\* Thread t's call stands as g.
SetGet(t, g) == gets' = [ gets EXCEPT ![t] = g ]

RECURSIVE SumStarted(_)
\* The calls the threads of T have started.
SumStarted(T) ==
    IF T = {} THEN 0
    ELSE LET t == CHOOSE t \in T : TRUE
         IN  gets[t].n + SumStarted(T \ { t })

GetsStarted == SumStarted(Threads)

\* get without the lookup in state_cache: every call goes on to the overlay.
get_ignoring_cache(t) ==
    /\ gets[t].pc \in { "idle", "done" }
    /\ GetsStarted < MaxGets
    /\ \E address \in Addresses, path \in Paths :
         SetGet(t, [ IdleGet EXCEPT
                       !.pc = "overlay", !.address = address, !.path = path,
                       !.n = gets[t].n + 1 ])
    /\ UNCHANGED << db, committer_vars, reader, history,
                    view, state_cache, state_proof_cache, locks >>

\* The read guard of state_cache kept by the thread after the if-let.
KeepReadGuard(l, t) == l

\* The read guard of state_cache, a temporary of the if-let's scrutinee, is
\* dropped at the end of the if-let statement.
DropReadGuard(l, t) == [ l EXCEPT !.state_cache_readers = @ \ { t } ]

\* VerifiedStateView::get: entry and the lookup in state_cache under the
\* read lock, which is granted while no thread holds the write guard.
get(t) ==
    /\ gets[t].pc \in { "idle", "done" }
    /\ GetsStarted < MaxGets
    /\ locks.state_cache_writer = {}
    /\ locks' = DropReadGuard([ locks EXCEPT !.state_cache_readers = @ \cup { t } ], t)
    /\ \E address \in Addresses, path \in Paths :
         LET g == [ IdleGet EXCEPT
                      !.address = address, !.path = path, !.n = gets[t].n + 1 ]
         IN  \/ /\ address \in DOMAIN state_cache
                /\ SetGet(t, [ g EXCEPT
                                 !.pc = "done",
                                 !.result = Some(GetResult(
                                     "Ok", Field(state_cache[address], path),
                                     address, view.latest_persistent_state_root)) ])
             \/ /\ address \notin DOMAIN state_cache
                /\ SetGet(t, [ g EXCEPT !.pc = "overlay" ])
    /\ UNCHANGED << db, committer_vars, reader, history,
                    view, state_cache, state_proof_cache >>

\* get_speculative_state sending every key to persistent storage.
get_speculative_state_always_db(t) ==
    /\ gets[t].pc = "overlay"
    /\ SetGet(t, [ gets[t] EXCEPT !.pc = "query" ])
    /\ UNCHANGED << db, committer_vars, reader, history,
                    view, state_cache, state_proof_cache, locks >>

\* VerifiedStateView::get: the speculative overlay is asked for the key.
get_speculative_state(t) ==
    /\ gets[t].pc = "overlay"
    /\ LET st == view.speculative_state[gets[t].address]
       IN  \/ /\ st.status = "ExistsInScratchPad"
              /\ SetGet(t, [ gets[t] EXCEPT !.pc = "insert", !.value = Some(st.blob) ])
           \/ /\ st.status = "DoesNotExist"
              /\ SetGet(t, [ gets[t] EXCEPT !.pc = "insert", !.value = None ])
           \/ /\ st.status \in { "ExistsInDB", "Unknown" }
              /\ SetGet(t, [ gets[t] EXCEPT !.pc = "query" ])
    /\ UNCHANGED << db, committer_vars, reader, history,
                    view, state_cache, state_proof_cache, locks >>

\* get_value_with_proof taking the reader's answer without verifying it.
get_value_with_proof_unverified(t) ==
    /\ gets[t].pc = "query"
    /\ \E a \in ReaderAnswers :
         SetGet(t, [ gets[t] EXCEPT
                       !.pc = "insert_proof", !.value = a.value,
                       !.proof = Some(a.proof), !.queried = TRUE ])
    /\ UNCHANGED << db, committer_vars, reader, history,
                    view, state_cache, state_proof_cache, locks >>

\* VerifiedStateView::get: the value and its proof come from the reader (or
\* are the empty ones when nothing is persistent), and the proof is verified
\* against the persistent root.
get_value_with_proof(t) ==
    /\ gets[t].pc = "query"
    /\ LET root == view.latest_persistent_state_root
           Verified(a) ==
               IF verify(a.proof, root, gets[t].address, a.value)
               THEN SetGet(t, [ gets[t] EXCEPT
                                  !.pc = "insert_proof", !.value = a.value,
                                  !.proof = Some(a.proof),
                                  !.queried = IsSome(view.latest_persistent_version) ])
               ELSE SetGet(t, [ gets[t] EXCEPT
                                  !.pc = "done",
                                  !.queried = IsSome(view.latest_persistent_version),
                                  !.result = Some(GetResult(
                                      "ProofInvalid", None, gets[t].address, root)) ])
       IN  \/ /\ IsSome(view.latest_persistent_version)
              /\ SetGet(t, [ gets[t] EXCEPT
                               !.pc = "done", !.queried = TRUE,
                               !.result = Some(GetResult(
                                   "ReaderErr", None, gets[t].address, root)) ])
           \/ /\ IsSome(view.latest_persistent_version)
              /\ \E a \in ReaderAnswers : Verified(a)
           \/ /\ ~IsSome(view.latest_persistent_version)
              /\ Verified([ value |-> None, proof |-> EmptyProof ])
    /\ UNCHANGED << db, committer_vars, reader, history,
                    view, state_cache, state_proof_cache, locks >>

\* VerifiedStateView::get: state_proof_cache.write() is granted while no
\* thread holds a guard of state_proof_cache.
state_proof_cache_write(t) ==
    /\ gets[t].pc = "insert_proof"
    /\ locks.state_proof_cache_writer = {}
    /\ locks' = [ locks EXCEPT !.state_proof_cache_writer = { t } ]
    /\ UNCHANGED << db, committer_vars, reader, history,
                    view, state_cache, state_proof_cache, gets >>

\* get going on to the value without inserting the proof it verified.
get_without_proof_insert(t) ==
    /\ gets[t].pc = "insert_proof"
    /\ locks.state_proof_cache_writer = { t }
    /\ locks' = [ locks EXCEPT !.state_proof_cache_writer = {} ]
    /\ SetGet(t, [ gets[t] EXCEPT !.pc = "insert" ])
    /\ UNCHANGED << db, committer_vars, reader, history, view,
                    state_cache, state_proof_cache >>

\* VerifiedStateView::get: the verified proof goes into state_proof_cache
\* under its write guard, which the end of the statement drops.
get_insert_proof(t) ==
    /\ gets[t].pc = "insert_proof"
    /\ locks.state_proof_cache_writer = { t }
    /\ locks' = [ locks EXCEPT !.state_proof_cache_writer = {} ]
    /\ state_proof_cache' =
           Insert(state_proof_cache, gets[t].address, Unwrap(gets[t].proof))
    /\ SetGet(t, [ gets[t] EXCEPT !.pc = "insert" ])
    /\ UNCHANGED << db, committer_vars, reader, history, view, state_cache >>

\* get_or_insert caching only a value that exists: for a key without a
\* value it returns None and leaves state_cache alone.
get_or_insert_existing(t) ==
    /\ gets[t].pc = "insert"
    /\ locks.state_cache_writer = { t }
    /\ locks' = [ locks EXCEPT !.state_cache_writer = {} ]
    /\ LET own == IF IsSome(gets[t].value) THEN Unwrap(gets[t].value) ELSE "default"
           cached == IF gets[t].address \in DOMAIN state_cache
                     THEN state_cache[gets[t].address] ELSE own
       IN  /\ state_cache' = IF IsSome(gets[t].value)
                             THEN Insert(state_cache, gets[t].address, cached)
                             ELSE state_cache
           /\ SetGet(t, [ gets[t] EXCEPT
                            !.pc = "done", !.value = None, !.proof = None,
                            !.result = Some(GetResult(
                                "Ok", Field(cached, gets[t].path), gets[t].address,
                                view.latest_persistent_state_root)) ])
    /\ UNCHANGED << db, committer_vars, reader, history, view, state_proof_cache >>

\* get_or_insert returning its own value without caching it.
get_or_insert_uncached(t) ==
    /\ gets[t].pc = "insert"
    /\ SetGet(t, [ gets[t] EXCEPT
                     !.pc = "done", !.value = None, !.proof = None,
                     !.result = Some(GetResult(
                         "Ok",
                         Field(IF IsSome(gets[t].value)
                               THEN Unwrap(gets[t].value) ELSE "default",
                               gets[t].path),
                         gets[t].address, view.latest_persistent_state_root)) ])
    /\ locks.state_cache_writer = { t }
    /\ locks' = [ locks EXCEPT !.state_cache_writer = {} ]
    /\ UNCHANGED << db, committer_vars, reader, history, view,
                    state_cache, state_proof_cache >>

\* VerifiedStateView::get: state_cache.write() is granted while no thread
\* holds a guard of state_cache, read or write.
state_cache_write(t) ==
    /\ gets[t].pc = "insert"
    /\ locks.state_cache_writer = {}
    /\ locks.state_cache_readers = {}
    /\ locks' = [ locks EXCEPT !.state_cache_writer = { t } ]
    /\ UNCHANGED << db, committer_vars, reader, history,
                    view, state_cache, state_proof_cache, gets >>

\* VerifiedStateView::get: under the write guard of state_cache the value is
\* inserted if the key is still absent, and the field of the cached value is
\* returned; the return drops the guard.
get_or_insert(t) ==
    /\ gets[t].pc = "insert"
    /\ locks.state_cache_writer = { t }
    /\ locks' = [ locks EXCEPT !.state_cache_writer = {} ]
    /\ LET own == IF IsSome(gets[t].value) THEN Unwrap(gets[t].value) ELSE "default"
           cached == IF gets[t].address \in DOMAIN state_cache
                     THEN state_cache[gets[t].address] ELSE own
       IN  /\ state_cache' = Insert(state_cache, gets[t].address, cached)
           /\ SetGet(t, [ gets[t] EXCEPT
                            !.pc = "done", !.value = None, !.proof = None,
                            !.result = Some(GetResult(
                                "Ok", Field(cached, gets[t].path), gets[t].address,
                                view.latest_persistent_state_root)) ])
    /\ UNCHANGED << db, committer_vars, reader, history, view, state_proof_cache >>

\* VerifiedStateView::into_state_cache: the overlay and the two caches as
\* they are.
into_state_cache ==
    [ frozen_base |-> view.speculative_state,
      state |-> state_cache,
      proofs |-> state_proof_cache ]

\* The threads reading through the view.
ViewNext ==
    /\ \E t \in Threads :
        \/ get(t)
        \/ get_speculative_state(t)
        \/ get_value_with_proof(t)
        \/ state_proof_cache_write(t)
        \/ get_insert_proof(t)
        \/ state_cache_write(t)
        \/ get_or_insert(t)
    /\ UNCHANGED << page, rocksdb_property_reporter >>

ViewSpec == ViewInit /\ [][ViewNext]_vars

\* A step of thread t's call that waits for no lock.
GetStep(t) ==
    /\ \/ get_speculative_state(t)
       \/ get_value_with_proof(t)
       \/ get_insert_proof(t)
       \/ get_or_insert(t)
    /\ UNCHANGED << page, rocksdb_property_reporter >>

\* Thread t is granted the lock it waits for.
LockStep(t) ==
    /\ state_proof_cache_write(t) \/ state_cache_write(t)
    /\ UNCHANGED << page, rocksdb_property_reporter >>

\* The views constructed without a version: genesis views and views at
\* PRE_GENESIS_VERSION.
LockInit == ViewInit /\ view.given_version = None

LockSpec == LockInit /\ [][ViewNext]_vars

\* The threads run, and a lock that becomes free again and again is granted
\* to each thread that waits for it (fair lock scheduling).
ViewLiveSpec ==
    LockSpec /\ \A t \in Threads : WF_vars(GetStep(t)) /\ SF_vars(LockStep(t))

\* ------------------------------------------------------ the paged reads

\* const MAX_LIMIT: u64 = 5000
MAX_LIMIT == 5000

EVENT_BY_KEY_CF_NAME == "event_by_key"

TRANSACTION_BY_ACCOUNT_CF_NAME == "transaction_by_account"

\* The event keys queried: every event of the ledger below is on "k1".
EventKeys == { "k1", "k2" }

\* The number of events each version of the ledger below emits on "k1".
EventsPerVersion == << 1, 2, 1 >>

\* The sequence number of the first event of version ver (versions from 0).
RECURSIVE FirstSeqOf(_)
FirstSeqOf(ver) ==
    IF ver = 0 THEN 0 ELSE FirstSeqOf(ver - 1) + EventsPerVersion[ver]

\* The contract events of version ver.
EventsOf(ver) ==
    [ i \in 1 .. EventsPerVersion[ver + 1] |->
        [ key |-> "k1", sequence_number |-> FirstSeqOf(ver) + i - 1 ] ]

\* EventStore::put_events, the index part: (key, sequence number) ->
\* (version, index in the version).
put_events_by_key(ver, events) ==
    [ i \in 1 .. Len(events) |->
        Put(EVENT_BY_KEY_CF_NAME,
            << events[i].key, events[i].sequence_number >>, << ver, i - 1 >>) ]

\* TransactionStore::put_transaction, the index part: (account, sequence
\* number) -> version.
put_transaction_by_account(address, seq_num, ver) ==
    Put(TRANSACTION_BY_ACCOUNT_CF_NAME, << address, seq_num >>, ver)

\* What save_transactions stages for the version ver of the ledger below:
\* the transaction of account "a1" with sequence number ver and its events.
PagedVersion(ver) ==
    << put_transaction(ver, << "T", ver >>),
       put_transaction_by_account("a1", ver, ver),
       put_write_set(ver, << "W", ver >>) >>
    \o put_events(ver, EventsOf(ver))
    \o put_events_by_key(ver, EventsOf(ver))

\* The transaction infos of the ledger below.
PagedInfos == [ i \in 1 .. Len(EventsPerVersion) |-> [ status |-> "Keep", txn |-> i - 1 ] ]

\* A ledger of Len(EventsPerVersion) committed versions.
PagedDB ==
    write_schemas(EmptyDB,
        Flatten([ i \in 1 .. Len(EventsPerVersion) |-> PagedVersion(i - 1) ])
        \o put_transaction_infos(<< >>, 0, PagedInfos))

\* EventStore::get_latest_sequence_number: the highest sequence number of
\* the key among the versions up to ledger_version.
get_latest_sequence_number(d, ledger_version, event_key) ==
    LET seqs == { k[3] : k \in { x \in DOMAIN d :
                                   /\ x[1] = EVENT_BY_KEY_CF_NAME
                                   /\ x[2] = event_key
                                   /\ d[x][1] <= ledger_version } }
    IN  IF seqs = {} THEN None
        ELSE Some(CHOOSE m \in seqs : \A n \in seqs : n <= m)

RECURSIVE lookup_events_by_key(_, _, _, _, _)
\* EventStore::lookup_events_by_key: (seq, version, index) by ascending
\* sequence number from start_seq_num, at most limit of them, up to
\* ledger_version.
lookup_events_by_key(d, event_key, start_seq_num, limit, ledger_version) ==
    LET at == Get(d, EVENT_BY_KEY_CF_NAME, << event_key, start_seq_num >>)
    IN  IF limit = 0 \/ ~IsSome(at) \/ start_seq_num > U64_MAX THEN << >>
        ELSE IF Unwrap(at)[1] > ledger_version THEN << >>
        ELSE << << start_seq_num, Unwrap(at)[1], Unwrap(at)[2] >> >>
             \o lookup_events_by_key(d, event_key, start_seq_num + 1,
                                     limit - 1, ledger_version)

\* EventStore::get_event_with_proof_by_version_and_index (the event).
get_event_with_proof_by_version_and_index(d, ver, idx) ==
    Get(d, EVENT_CF_NAME, << ver, idx >>)

\* The orders of a paged read.
Orders == { "Ascending", "Descending" }

\* The outcome of a paged read: Ok(items) or an error; reads lists the
\* store reads made before it returned.
PageResult(kind, items, reads) == [ kind |-> kind, items |-> items, reads |-> reads ]

\* error_if_too_many_requested
error_if_too_many_requested(num_requested, max_allowed) ==
    IF num_requested > max_allowed
    THEN Some(<< "TooManyRequested", num_requested, max_allowed >>)
    ELSE None

\* get_first_seq_num_and_limit with the descending range one too low.
get_first_seq_num_and_limit_one_low(order, cursor, limit) ==
    IF ~(limit > 0) THEN None
    ELSE IF order = "Ascending" THEN Some(<< cursor, limit >>)
    ELSE IF limit <= cursor THEN Some(<< WrappingSub(cursor, limit), limit >>)
    ELSE Some(<< 0, WrappingAdd(cursor, 1) >>)

\* get_first_seq_num_and_limit: None for the error "limit should > 0".
get_first_seq_num_and_limit(order, cursor, limit) ==
    IF ~(limit > 0) THEN None
    ELSE IF order = "Ascending" THEN Some(<< cursor, limit >>)
    ELSE IF limit <= cursor THEN Some(<< WrappingAdd(WrappingSub(cursor, limit), 1), limit >>)
    ELSE Some(<< 0, WrappingAdd(cursor, 1) >>)

\* Vec::reverse
Reverse(q) == [ i \in 1 .. Len(q) |-> q[Len(q) + 1 - i] ]

\* The first error of a sequence of item results, None when all are Ok
\* (collect::<Result<Vec<_>>>).
FirstError(items) ==
    IF \E i \in 1 .. Len(items) : items[i].kind # "Ok"
    THEN Some(items[CHOOSE i \in 1 .. Len(items) :
                       /\ items[i].kind # "Ok"
                       /\ \A j \in 1 .. (i - 1) : items[j].kind = "Ok"].kind)
    ELSE None

\* get_events_with_proof_by_event_key: one EventWithProof of the answer.
EventWithProof(d, index, ledger_version) ==
    LET event == get_event_with_proof_by_version_and_index(d, index[2], index[3])
        proof == get_transaction_info_with_proof(d, index[2], ledger_version)
    IN  IF ~IsSome(event) THEN [ kind |-> "NotFound" ]
        ELSE IF index[1] # Unwrap(event).sequence_number THEN [ kind |-> "IndexBroken" ]
        ELSE IF ~IsSome(proof) THEN [ kind |-> "NotFound" ]
        ELSE [ kind |-> "Ok", transaction_version |-> index[2],
               event_index |-> index[3], event |-> Unwrap(event) ]

\* Cursor taking start_seq_num as it is.
CursorAsGiven(get_latest, latest, start_seq_num) == start_seq_num

\* get_events_with_proof_by_event_key: the cursor, which for "latest" is the
\* latest sequence number of the key (latest, as get_latest_sequence_number
\* returned it), 0 when it has no events.
Cursor(get_latest, latest, start_seq_num) ==
    IF get_latest
    THEN IF IsSome(latest) THEN Unwrap(latest) ELSE 0
    ELSE start_seq_num

\* DropPastTip keeping whatever the index returned.
DropPastTipNever(order, looked_up, cursor) == looked_up

\* get_events_with_proof_by_event_key: a descending lookup whose last item is
\* below the cursor was asked beyond the latest sequence number and yields
\* nothing.
DropPastTip(order, looked_up, cursor) ==
    IF /\ order = "Descending"
       /\ looked_up # << >>
       /\ looked_up[Len(looked_up)][1] < cursor
    THEN << >> ELSE looked_up

\* AptosDB::get_events_with_proof_by_event_key, after reads were made.
get_events_with_proof_by_event_key(d, reads, event_key, start_seq_num, order, limit, ledger_version) ==
    LET too == error_if_too_many_requested(limit, MAX_LIMIT)
        get_latest == order = "Descending" /\ start_seq_num = U64_MAX
        cursor == Cursor(get_latest,
                         get_latest_sequence_number(d, ledger_version, event_key),
                         start_seq_num)
        reads1 == IF get_latest THEN Append(reads, "get_latest_sequence_number")
                  ELSE reads
        range == get_first_seq_num_and_limit(order, cursor, limit)
        first_seq == Unwrap(range)[1]
        real_limit == Unwrap(range)[2]
        looked_up == lookup_events_by_key(d, event_key, first_seq, real_limit,
                                          ledger_version)
        reads2 == Append(reads1, "lookup_events_by_key")
        event_indices == DropPastTip(order, looked_up, cursor)
        events_with_proof ==
            [ i \in 1 .. Len(event_indices) |->
                EventWithProof(d, event_indices[i], ledger_version) ]
        reads3 == IF event_indices = << >> THEN reads2
                  ELSE Append(reads2, "get_event_with_proof_by_version_and_index")
    IN  IF IsSome(too) THEN PageResult("TooManyRequested", Tail(Unwrap(too)), reads)
        ELSE IF ~IsSome(range) THEN PageResult("LimitZero", << limit >>, reads1)
        ELSE IF IsSome(FirstError(events_with_proof))
             THEN PageResult(Unwrap(FirstError(events_with_proof)), << >>, reads3)
        ELSE PageResult("Ok",
                        IF order = "Descending" THEN Reverse(events_with_proof)
                        ELSE events_with_proof,
                        reads3)

\* DbReader::get_latest_version: the version of the latest ledger info,
\* None (an error) when there is none yet.
get_latest_version(latest) ==
    IF IsSome(latest) THEN Some(Unwrap(latest).version) ELSE None

\* AptosDB::get_events_with_proofs
get_events_with_proofs(d, latest, event_key, start, order, limit, known_version) ==
    IF IsSome(known_version)
    THEN get_events_with_proof_by_event_key(
             d, << >>, event_key, start, order, limit, Unwrap(known_version))
    ELSE IF ~IsSome(get_latest_version(latest))
         THEN PageResult("NotFound", << >>, << "get_latest_ledger_info" >>)
    ELSE get_events_with_proof_by_event_key(
             d, << "get_latest_ledger_info" >>, event_key, start, order, limit,
             Unwrap(get_latest_version(latest)))

\* AptosDB::get_events: the (version, event) pairs of get_events_with_proofs.
get_events(d, latest, event_key, start, order, limit) ==
    LET r == get_events_with_proofs(d, latest, event_key, start, order, limit, None)
    IN  IF r.kind # "Ok" THEN r
        ELSE PageResult("Ok",
                        [ i \in 1 .. Len(r.items) |->
                            << r.items[i].transaction_version, r.items[i].event >> ],
                        r.reads)

\* AptosDB::get_transaction_with_proof as one read of engine state d.
TransactionWithProof(d, version, ledger_version, fetch_events) ==
    LET proof == get_transaction_info_with_proof(d, version, ledger_version)
        transaction == get_transaction(d, version)
    IN  IF ~IsSome(proof) \/ ~IsSome(transaction) THEN [ kind |-> "NotFound" ]
        ELSE [ kind |-> "Ok", version |-> version,
               transaction |-> Unwrap(transaction),
               events |-> IF fetch_events
                          THEN Some(get_events_by_version(d, version)) ELSE None,
               proof |-> Unwrap(proof) ]

\* LedgerStore::get_transaction_range_proof: exists when the accumulator of
\* ledger_version is stored.
get_transaction_range_proof(d, start_version, limit, ledger_version) ==
    Get(d, TRANSACTION_ACCUMULATOR_CF_NAME, << ledger_version >>)

\* The limit taken as given, not capped by the ledger version.
PageLimitAsGiven(start_version, limit, ledger_version) == limit

\* std::cmp::min(limit, ledger_version - start_version + 1), the sum wrapping.
PageLimit(start_version, limit, ledger_version) ==
    LET span == WrappingAdd(ledger_version - start_version, 1)
    IN  IF limit <= span THEN limit ELSE span

\* The reads of get_transactions and get_transaction_outputs for a range,
\* item by item (item[v] is what was read for version v): Ok(items with the proof), the first error, or the panic of
\* an overflowing sum in a build with overflow checks.
TransactionRange(d, checks, start_version, limit, ledger_version, item, reads) ==
    LET real == PageLimit(start_version, limit, ledger_version)
        items == [ i \in 1 .. real |-> item[start_version + i - 1] ]
        proof == get_transaction_range_proof(d, start_version, real, ledger_version)
    IN  IF checks /\ ( \/ AddOverflows(ledger_version - start_version, 1)
                       \/ AddOverflows(start_version, real) )
        THEN PageResult("Panic", << >>, << >>)
        ELSE IF AddOverflows(start_version, real)
             THEN IF IsSome(proof) THEN PageResult("Ok", << >>, << "get_transaction_range_proof" >>)
                  ELSE PageResult("NotFound", << >>, << "get_transaction_range_proof" >>)
        ELSE IF IsSome(FirstError(items))
             THEN PageResult(Unwrap(FirstError(items)), << >>, reads)
        ELSE IF ~IsSome(proof)
             THEN PageResult("NotFound", << >>, Append(reads, "get_transaction_range_proof"))
        ELSE PageResult("Ok", items, Append(reads, "get_transaction_range_proof"))

\* AptosDB::get_transactions
get_transactions(d, checks, start_version, limit, ledger_version, fetch_events) ==
    LET too == error_if_too_many_requested(limit, MAX_LIMIT)
        Item(version) ==
            LET transaction == get_transaction(d, version)
                info == Get(d, TRANSACTION_INFO_CF_NAME, << version >>)
            IN  IF ~IsSome(transaction) \/ ~IsSome(info) THEN [ kind |-> "NotFound" ]
                ELSE [ kind |-> "Ok", version |-> version,
                       transaction |-> Unwrap(transaction), info |-> Unwrap(info),
                       events |-> IF fetch_events
                                  THEN Some(get_events_by_version(d, version))
                                  ELSE None ]
    IN  IF IsSome(too) THEN PageResult("TooManyRequested", Tail(Unwrap(too)), << >>)
        ELSE IF start_version > ledger_version \/ limit = 0
             THEN PageResult("Ok", << >>, << >>)
        ELSE TransactionRange(d, checks, start_version, limit, ledger_version,
                              [ version \in start_version .. start_version
                                  + PageLimit(start_version, limit, ledger_version) - 1
                                  |-> Item(version) ],
                              << "get_transaction" >>)

\* AptosDB::get_transaction_outputs
get_transaction_outputs(d, checks, start_version, limit, ledger_version) ==
    LET too == error_if_too_many_requested(limit, MAX_LIMIT)
        Item(version) ==
            LET info == Get(d, TRANSACTION_INFO_CF_NAME, << version >>)
                write_set == Get(d, WRITE_SET_CF_NAME, << version >>)
                transaction == get_transaction(d, version)
            IN  IF ~IsSome(info) \/ ~IsSome(write_set) \/ ~IsSome(transaction)
                THEN [ kind |-> "NotFound" ]
                ELSE [ kind |-> "Ok", version |-> version,
                       transaction |-> Unwrap(transaction), info |-> Unwrap(info),
                       write_set |-> Unwrap(write_set),
                       events |-> get_events_by_version(d, version) ]
    IN  IF IsSome(too) THEN PageResult("TooManyRequested", Tail(Unwrap(too)), << >>)
        ELSE IF start_version > ledger_version \/ limit = 0
             THEN PageResult("Ok", << >>, << >>)
        ELSE TransactionRange(d, checks, start_version, limit, ledger_version,
                              [ version \in start_version .. start_version
                                  + PageLimit(start_version, limit, ledger_version) - 1
                                  |-> Item(version) ],
                              << "get_transaction_info" >>)

RECURSIVE get_account_transaction_version_iter(_, _, _, _, _)
\* TransactionStore::get_account_transaction_version_iter: the versions of
\* the account's transactions by sequence number from start_seq_num, at most
\* limit of them, up to ledger_version.
get_account_transaction_version_iter(d, address, start_seq_num, limit, ledger_version) ==
    LET at == Get(d, TRANSACTION_BY_ACCOUNT_CF_NAME, << address, start_seq_num >>)
    IN  IF limit = 0 \/ ~IsSome(at) THEN << >>
        ELSE IF Unwrap(at) > ledger_version THEN << >>
        ELSE << Unwrap(at) >>
             \o get_account_transaction_version_iter(
                    d, address, start_seq_num + 1, limit - 1, ledger_version)

\* AptosDB::get_account_transactions
get_account_transactions(d, address, start_seq_num, limit, include_events, ledger_version) ==
    LET too == error_if_too_many_requested(limit, MAX_LIMIT)
        versions == get_account_transaction_version_iter(
                        d, address, start_seq_num, limit, ledger_version)
        txns_with_proofs ==
            [ i \in 1 .. Len(versions) |->
                TransactionWithProof(d, versions[i], ledger_version, include_events) ]
        reads == << "get_account_transaction_version_iter" >>
    IN  IF IsSome(too) THEN PageResult("TooManyRequested", Tail(Unwrap(too)), << >>)
        ELSE IF IsSome(FirstError(txns_with_proofs))
             THEN PageResult(Unwrap(FirstError(txns_with_proofs)), << >>, reads)
        ELSE PageResult("Ok", txns_with_proofs, reads)

\* The ledger info of the ledger of PagedDB at version v.
PagedLedgerInfo(v) ==
    [ version |-> v, transaction_accumulator_hash |-> SubSeq(PagedInfos, 1, v + 1) ]

\* A database that is either fresh or holds the ledger of PagedDB, whose
\* latest ledger info is at any of its versions or absent (versions committed
\* without ledger infos); either build.
PageInit ==
    /\ \/ /\ db = EmptyDB
          /\ latest_ledger_info = None
       \/ /\ db = PagedDB
          /\ latest_ledger_info \in
                { None } \cup { Some(PagedLedgerInfo(v)) :
                                  v \in 0 .. (Len(EventsPerVersion) - 1) }
    /\ metrics = [ ledger_version |-> None, committed_txns |-> 0,
                   latest_txn_version |-> None, ledger_counters |-> None,
                   latest_account_count |-> None,
                   get_leaf_count |-> None ]
    /\ pruner = None
    /\ overflow_checks \in BOOLEAN
    /\ calls = 0
    /\ pc = [ p \in Committers |-> "idle" ]
    /\ args = [ p \in Committers |-> None ]
    /\ cs = [ p \in Committers |-> << >> ]
    /\ last_version = [ p \in Committers |-> 0 ]
    /\ new_root_hash = [ p \in Committers |-> << >> ]
    /\ counters = [ p \in Committers |-> None ]
    /\ result = [ p \in Committers |-> "None" ]
    /\ before = [ p \in Committers |-> None ]
    /\ reader = IdleReader
    /\ history = << >>
    /\ view = VerifiedStateView_new(None, SPARSE_MERKLE_PLACEHOLDER_HASH,
                                    [ a \in Addresses |->
                                        [ status |-> "Unknown", blob |-> "default" ] ])
    /\ state_cache = << >>
    /\ state_proof_cache = << >>
    /\ locks = Unlocked
    /\ gets = [ t \in Threads |-> IdleGet ]
    /\ rocksdb_property_reporter = SpawnedReporter
    /\ page = NoPage

\* The arguments the paged reads are called with.
PageLimits == { 0, 1, 2, 3, 5, MAX_LIMIT, MAX_LIMIT + 1 }

StartSeqNums == (0 .. 5) \cup { U64_MAX }

PageVersions == (0 .. 3) \cup { U64_MAX }

\* The label under which a facade method reports to the latency histogram,
\* None for a method whose body is not wrapped in gauged_api.
ApiName(api) ==
    CASE api = "get_epoch_ending_ledger_infos" -> Some("get_epoch_ending_ledger_infos")
      [] api = "get_account_transactions" -> Some("get_account_transactions")
      [] api = "get_transaction_by_hash" -> None
      [] api = "get_transaction_by_version" -> None
      [] api = "get_transactions" -> Some("get_transactions")
      [] api = "get_first_txn_version" -> None
      [] api = "get_first_write_set_version" -> None
      [] api = "get_transaction_outputs" -> Some("get_transactions_outputs")
      [] api = "get_events" -> Some("get_events")
      [] api = "get_events_with_proofs" -> Some("get_events_with_proofs")
      [] api = "get_latest_value" -> Some("get_latest_value")
      [] api = "get_state_proof_with_ledger_info" ->
             Some("get_state_proof_with_ledger_info")

\* gauged_api: the observation made for the result of api_impl.
gauged_api(api_name, res) ==
    << [ api_name |-> api_name,
         res_type |-> IF res.kind = "Ok" THEN "Ok" ELSE "Err" ] >>

\* The latency observations of one call of api that ends with res; a panic
\* unwinds past the observation.
Observations(api, res) ==
    IF res.kind = "Panic" \/ ~IsSome(ApiName(api)) THEN << >>
    ELSE gauged_api(Unwrap(ApiName(api)), res)

\* The call api(a) ends with r, or with the engine's error when it read the
\* stores. The reads change nothing, so one call is followed per behaviour.
Paged(api, a, r) ==
    /\ page = NoPage
    /\ \E res \in { r } \cup
                  ( IF r.reads # << >> /\ r.kind # "Panic"
                    THEN { PageResult("Engine", << >>, r.reads) } ELSE {} ) :
         page' = [ api |-> api, args |-> a, result |-> Some(res),
                   observations |-> Observations(api, res) ]
    /\ UNCHANGED << db, committer_vars, reader, history, view_vars,
                    rocksdb_property_reporter >>

\* DbReader::get_events is called.
DbReader_get_events ==
    \E event_key \in EventKeys, start \in StartSeqNums, order \in Orders,
       limit \in PageLimits :
        Paged("get_events",
              [ event_key |-> event_key, start |-> start, order |-> order,
                limit |-> limit, known_version |-> None ],
              get_events(db, latest_ledger_info, event_key, start, order, limit))

\* DbReader::get_events_with_proofs is called.
DbReader_get_events_with_proofs ==
    \E event_key \in EventKeys, start \in StartSeqNums, order \in Orders,
       limit \in PageLimits,
       known_version \in { None } \cup { Some(v) : v \in 0 .. 3 } :
        Paged("get_events_with_proofs",
              [ event_key |-> event_key, start |-> start, order |-> order,
                limit |-> limit, known_version |-> known_version ],
              get_events_with_proofs(db, latest_ledger_info, event_key, start,
                                     order, limit, known_version))

\* DbReader::get_transactions is called.
DbReader_get_transactions ==
    \E start_version \in PageVersions, limit \in PageLimits,
       ledger_version \in PageVersions, fetch_events \in BOOLEAN :
        Paged("get_transactions",
              [ start |-> start_version, limit |-> limit,
                ledger_version |-> ledger_version, fetch_events |-> fetch_events ],
              get_transactions(db, overflow_checks, start_version, limit,
                               ledger_version, fetch_events))

\* DbReader::get_transaction_outputs is called.
DbReader_get_transaction_outputs ==
    \E start_version \in PageVersions, limit \in PageLimits,
       ledger_version \in PageVersions :
        Paged("get_transaction_outputs",
              [ start |-> start_version, limit |-> limit,
                ledger_version |-> ledger_version ],
              get_transaction_outputs(db, overflow_checks, start_version, limit,
                                      ledger_version))

\* DbReader::get_account_transactions is called.
DbReader_get_account_transactions ==
    \E address \in Addresses, start_seq_num \in 0 .. 3, limit \in PageLimits,
       include_events \in BOOLEAN, ledger_version \in 0 .. 3 :
        Paged("get_account_transactions",
              [ address |-> address, start |-> start_seq_num, limit |-> limit,
                include_events |-> include_events,
                ledger_version |-> ledger_version ],
              get_account_transactions(db, address, start_seq_num, limit,
                                       include_events, ledger_version))

PageNext ==
    \/ DbReader_get_events
    \/ DbReader_get_events_with_proofs
    \/ DbReader_get_transactions
    \/ DbReader_get_transaction_outputs
    \/ DbReader_get_account_transactions

PageSpec == PageInit /\ [][PageNext]_vars

\* The requests get_first_seq_num_and_limit is applied to.
HelperCursors == (0 .. 6) \cup { MAX_LIMIT, U64_MAX - 1, U64_MAX }

HelperLimits == (0 .. 7) \cup { MAX_LIMIT, U64_MAX }

\* A request for get_first_seq_num_and_limit, not yet answered.
HelperInit ==
    /\ db = EmptyDB
    /\ latest_ledger_info = None
    /\ metrics = [ ledger_version |-> None, committed_txns |-> 0,
                   latest_txn_version |-> None, ledger_counters |-> None,
                   latest_account_count |-> None,
                   get_leaf_count |-> None ]
    /\ pruner = None
    /\ overflow_checks = TRUE
    /\ calls = 0
    /\ pc = [ p \in Committers |-> "idle" ]
    /\ args = [ p \in Committers |-> None ]
    /\ cs = [ p \in Committers |-> << >> ]
    /\ last_version = [ p \in Committers |-> 0 ]
    /\ new_root_hash = [ p \in Committers |-> << >> ]
    /\ counters = [ p \in Committers |-> None ]
    /\ result = [ p \in Committers |-> "None" ]
    /\ before = [ p \in Committers |-> None ]
    /\ reader = IdleReader
    /\ history = << >>
    /\ view = VerifiedStateView_new(None, SPARSE_MERKLE_PLACEHOLDER_HASH,
                                    [ a \in Addresses |->
                                        [ status |-> "Unknown", blob |-> "default" ] ])
    /\ state_cache = << >>
    /\ state_proof_cache = << >>
    /\ locks = Unlocked
    /\ gets = [ t \in Threads |-> IdleGet ]
    /\ rocksdb_property_reporter = SpawnedReporter
    /\ \E order \in Orders, cursor \in HelperCursors, limit \in HelperLimits :
         page = [ api |-> "get_first_seq_num_and_limit",
                  args |-> [ order |-> order, cursor |-> cursor, limit |-> limit ],
                  result |-> None, observations |-> << >> ]

\* get_first_seq_num_and_limit is applied to the request.
HelperNext ==
    /\ page.result = None
    /\ page' = [ page EXCEPT
                   !.result = Some(get_first_seq_num_and_limit(
                                  page.args.order, page.args.cursor, page.args.limit)) ]
    /\ UNCHANGED << db, committer_vars, reader, history, view_vars,
                    rocksdb_property_reporter >>

HelperSpec == HelperInit /\ [][HelperNext]_vars

\* ------------------------------------------------- epoch-ending ledger infos

MAX_NUM_EPOCH_ENDING_LEDGER_INFO == 100

EPOCH_BY_VERSION_CF_NAME == "epoch_by_version"

\* The ledger of the epoch reads: epoch e holds the versions 2e and 2e + 1
\* and ends with the ledger info of version 2e + 1, which carries the next
\* validator set.
EpochLedgerInfo(version, ends) ==
    [ version |-> version, transaction_accumulator_hash |-> << >>,
      epoch |-> version \div 2,
      next_epoch_state |-> IF ends THEN Some((version \div 2) + 1) ELSE None ]

\* LedgerInfo::ends_epoch
ends_epoch(li) == IsSome(li.next_epoch_state)

\* LedgerInfo::next_block_epoch
next_block_epoch(li) ==
    IF IsSome(li.next_epoch_state) THEN Unwrap(li.next_epoch_state) ELSE li.epoch

\* LedgerStore::put_ledger_info of an epoch-ending ledger info: the ledger
\* info and the entry of the epoch index.
put_epoch_ending_ledger_info(li) ==
    << put_ledger_info(li), Put(EPOCH_BY_VERSION_CF_NAME, << li.version >>, li.epoch) >>

\* A database in which the epochs 0 .. n - 1 have ended; the ledger info that
\* ended the epoch in missing, if any, is lost.
EpochDB(n, missing) ==
    LET kept == { e \in 0 .. (n - 1) : missing # Some(e) }
        lis == [ k \in { << LEDGER_INFO_CF_NAME, 2 * e + 1 >> : e \in kept } |->
                    EpochLedgerInfo(k[2], TRUE) ]
        index == [ k \in { << EPOCH_BY_VERSION_CF_NAME, 2 * e + 1 >> :
                             e \in 0 .. (n - 1) } |-> k[2] \div 2 ]
    IN  lis @@ index

\* The versions at which an epoch ended.
EpochEndingVersions(d) ==
    { k[2] : k \in { x \in DOMAIN d : x[1] = EPOCH_BY_VERSION_CF_NAME } }

\* LedgerStore::get_epoch: the epoch of a version, from the end of the
\* previous epoch.
get_epoch(d, version) ==
    LET before_or_at == { v \in EpochEndingVersions(d) : v <= version }
    IN  IF before_or_at = {} THEN 0
        ELSE LET epoch_end_version ==
                     CHOOSE v \in before_or_at : \A w \in before_or_at : w <= v
                 epoch == d[<< EPOCH_BY_VERSION_CF_NAME, epoch_end_version >>]
             IN  IF epoch_end_version < version THEN epoch + 1 ELSE epoch

\* LedgerStore::get_epoch_ending_ledger_info_iter collected: the ledger infos
\* that ended the epochs start_epoch, start_epoch + 1, ... below end_epoch,
\* up to the first one that is not stored.
get_epoch_ending_ledger_info_iter(d, start_epoch, end_epoch) ==
    LET ending == EpochEndingVersions(d)
        Stored(e) ==
            \E v \in ending :
                /\ d[<< EPOCH_BY_VERSION_CF_NAME, v >>] = e
                /\ << LEDGER_INFO_CF_NAME, v >> \in DOMAIN d
                /\ ends_epoch(d[<< LEDGER_INFO_CF_NAME, v >>])
        LedgerInfoOf(e) ==
            d[<< LEDGER_INFO_CF_NAME,
                 CHOOSE v \in ending : d[<< EPOCH_BY_VERSION_CF_NAME, v >>] = e >>]
        n == IF end_epoch > start_epoch THEN end_epoch - start_epoch ELSE 0
        k == CHOOSE j \in 0 .. n :
                /\ \A i \in 0 .. (j - 1) : Stored(start_epoch + i)
                /\ j < n => ~Stored(start_epoch + j)
    IN  [ i \in 1 .. k |-> LedgerInfoOf(start_epoch + i - 1) ]

\* LedgerStore::get_consistency_proof: the proof that the accumulator of
\* ledger_version extends the one of client_known_version, served for
\* versions of the ledger.
get_consistency_proof(latest, client_known_version, ledger_version) ==
    IF /\ IsSome(latest)
       /\ ledger_version <= Unwrap(latest).version
       /\ client_known_version <= ledger_version
    THEN Some([ from |-> client_known_version, to |-> ledger_version ])
    ELSE None

\* get_epoch_ending_ledger_infos_impl: ensure!(start_epoch <= end_epoch) fails.
BadEpochRange(start_epoch, end_epoch) == ~(start_epoch <= end_epoch)

\* EpochStillOpen never refusing.
EpochStillOpenNever(end_epoch, latest_epoch) == FALSE

\* get_epoch_ending_ledger_infos_impl: ensure!(end_epoch <= latest_epoch) fails.
EpochStillOpen(end_epoch, latest_epoch) == ~(end_epoch <= latest_epoch)

\* PagingEpoch cutting a page of exactly limit epochs too.
PagingEpochAtLimit(start_epoch, end_epoch, limit) ==
    IF WrappingSub(end_epoch, start_epoch) >= limit
    THEN << WrappingAdd(start_epoch, limit), TRUE >>
    ELSE << end_epoch, FALSE >>

\* get_epoch_ending_ledger_infos_impl: (paging_epoch, more).
PagingEpoch(start_epoch, end_epoch, limit) ==
    IF WrappingSub(end_epoch, start_epoch) > limit
    THEN << WrappingAdd(start_epoch, limit), TRUE >>
    ELSE << end_epoch, FALSE >>

\* AptosDB::get_epoch_ending_ledger_infos_impl; Ok carries (lis, more).
get_epoch_ending_ledger_infos_impl(d, latest, checks, start_epoch, end_epoch, limit) ==
    IF BadEpochRange(start_epoch, end_epoch)
    THEN PageResult("BadRange", << >>, << >>)
    ELSE IF ~IsSome(latest)
    THEN PageResult("NotFound", << >>, << "get_latest_ledger_info" >>)
    ELSE
    LET latest_epoch == next_block_epoch(Unwrap(latest))
        paging == PagingEpoch(start_epoch, end_epoch, limit)
        paging_epoch == paging[1]
        more == paging[2]
        lis == get_epoch_ending_ledger_info_iter(d, start_epoch, paging_epoch)
        reads == << "get_latest_ledger_info", "get_epoch_ending_ledger_info_iter" >>
    IN  IF EpochStillOpen(end_epoch, latest_epoch)
        THEN IF checks /\ SubOverflows(latest_epoch, 1)
             THEN PageResult("Panic", << >>, << "get_latest_ledger_info" >>)
             ELSE PageResult("BadRange", << >>, << "get_latest_ledger_info" >>)
        ELSE IF checks /\ more /\ AddOverflows(start_epoch, limit)
        THEN PageResult("Panic", << >>, << "get_latest_ledger_info" >>)
        ELSE IF Len(lis) # WrappingSub(paging_epoch, start_epoch)
        THEN PageResult("Corruption", << >>, reads)
        ELSE PageResult("Ok", << lis, more >>, reads)

\* AptosDB::get_epoch_ending_ledger_infos
get_epoch_ending_ledger_infos(d, latest, checks, start_epoch, end_epoch) ==
    get_epoch_ending_ledger_infos_impl(d, latest, checks, start_epoch, end_epoch,
                                       MAX_NUM_EPOCH_ENDING_LEDGER_INFO)

\* VerifiableLedgerInfo trusting the given ledger info in every case.
VerifiableLedgerInfoGiven(epoch_change_proof, ledger_info) == Some(ledger_info)

\* get_state_proof_with_ledger_info: the ledger info the consistency proof
\* ends at, None for the error of a proof that is empty but not complete.
VerifiableLedgerInfo(epoch_change_proof, ledger_info) ==
    IF epoch_change_proof.more
    THEN IF epoch_change_proof.ledger_info_with_sigs = << >> THEN None
         ELSE Some(epoch_change_proof.ledger_info_with_sigs[
                       Len(epoch_change_proof.ledger_info_with_sigs)])
    ELSE Some(ledger_info)

\* EpochChangeProof::new
EpochChangeProof(ledger_info_with_sigs, more) ==
    [ ledger_info_with_sigs |-> ledger_info_with_sigs, more |-> more ]

\* KnownVersionTooLarge never refusing.
KnownVersionTooLargeNever(known_version, ledger_info) == FALSE

\* get_state_proof_with_ledger_info: ensure!(known_version <=
\* ledger_info.version()) fails.
KnownVersionTooLarge(known_version, ledger_info) ==
    ~(known_version <= ledger_info.version)

\* AptosDB::get_state_proof_with_ledger_info; Ok carries the StateProof, and
\* the failure of get_consistency_proof the range that was asked of it.
get_state_proof_with_ledger_info(d, latest, checks, known_version, ledger_info_with_sigs) ==
    IF KnownVersionTooLarge(known_version, ledger_info_with_sigs)
    THEN PageResult("BadRequest", << >>, << >>)
    ELSE
    LET known_epoch == get_epoch(d, known_version)
        end_epoch == next_block_epoch(ledger_info_with_sigs)
        infos == get_epoch_ending_ledger_infos(d, latest, checks, known_epoch, end_epoch)
        epoch_change_proof ==
            IF known_epoch < end_epoch
            THEN EpochChangeProof(infos.items[1], infos.items[2])
            ELSE EpochChangeProof(<< >>, FALSE)
        verifiable_li == VerifiableLedgerInfo(epoch_change_proof, ledger_info_with_sigs)
        consistency_proof ==
            get_consistency_proof(latest, known_version, Unwrap(verifiable_li).version)
        reads == << "get_epoch" >>
                 \o (IF known_epoch < end_epoch THEN infos.reads ELSE << >>)
    IN  IF known_epoch < end_epoch /\ infos.kind # "Ok"
        THEN PageResult(infos.kind, << >>, reads)
        ELSE IF ~IsSome(verifiable_li)
        THEN PageResult("Error", << >>, reads)
        ELSE IF ~IsSome(consistency_proof)
        THEN PageResult("NotFound",
                        << [ from |-> known_version,
                             to |-> Unwrap(verifiable_li).version ] >>,
                        Append(reads, "get_consistency_proof"))
        ELSE PageResult("Ok",
                        << [ ledger_info_with_sigs |-> ledger_info_with_sigs,
                             epoch_change_proof |-> epoch_change_proof,
                             consistency_proof |-> Unwrap(consistency_proof) ] >>,
                        Append(reads, "get_consistency_proof"))

\* The numbers of ended epochs of the databases that are read.
EpochCounts == { 1, 2, 3, 102, 103 }

\* An idle database in which some epochs have ended, possibly with one
\* epoch-ending ledger info lost, whose latest ledger info either ended the
\* last epoch or came after it; or a fresh database.
EpochInit ==
    /\ \/ /\ db = EmptyDB
          /\ latest_ledger_info = None
       \/ \E n \in EpochCounts, missing \in { None, Some(1), Some(101) } :
            /\ IsSome(missing) => Unwrap(missing) < n
            /\ db = EpochDB(n, missing)
            /\ latest_ledger_info \in
                  { Some(EpochLedgerInfo(2 * n - 1, TRUE)),
                    Some(EpochLedgerInfo(2 * n, FALSE)) }
    /\ metrics = [ ledger_version |-> None, committed_txns |-> 0,
                   latest_txn_version |-> None, ledger_counters |-> None,
                   latest_account_count |-> None,
                   get_leaf_count |-> None ]
    /\ pruner = None
    /\ overflow_checks \in BOOLEAN
    /\ calls = 0
    /\ pc = [ p \in Committers |-> "idle" ]
    /\ args = [ p \in Committers |-> None ]
    /\ cs = [ p \in Committers |-> << >> ]
    /\ last_version = [ p \in Committers |-> 0 ]
    /\ new_root_hash = [ p \in Committers |-> << >> ]
    /\ counters = [ p \in Committers |-> None ]
    /\ result = [ p \in Committers |-> "None" ]
    /\ before = [ p \in Committers |-> None ]
    /\ reader = IdleReader
    /\ history = << >>
    /\ view = VerifiedStateView_new(None, SPARSE_MERKLE_PLACEHOLDER_HASH,
                                    [ a \in Addresses |->
                                        [ status |-> "Unknown", blob |-> "default" ] ])
    /\ state_cache = << >>
    /\ state_proof_cache = << >>
    /\ locks = Unlocked
    /\ gets = [ t \in Threads |-> IdleGet ]
    /\ rocksdb_property_reporter = SpawnedReporter
    /\ page = NoPage

\* The epochs and versions the epoch reads are called with.
EpochArgs == { 0, 1, 2, 3, 4, 101, 102, 103, 104, U64_MAX }

KnownVersions == { 0, 1, 2, 3, 4, 5, 6, 7, 203, 204, 205, 206, 207, U64_MAX }

\* DbReader::get_epoch_ending_ledger_infos is called.
DbReader_get_epoch_ending_ledger_infos ==
    \E start_epoch \in EpochArgs, end_epoch \in EpochArgs :
        Paged("get_epoch_ending_ledger_infos",
              [ start_epoch |-> start_epoch, end_epoch |-> end_epoch ],
              get_epoch_ending_ledger_infos(db, latest_ledger_info, overflow_checks,
                                            start_epoch, end_epoch))

\* DbReader::get_state_proof_with_ledger_info is called, with the latest
\* ledger info or one that ended an epoch.
DbReader_get_state_proof_with_ledger_info ==
    \E known_version \in KnownVersions,
       li \in { EpochLedgerInfo(2 * e + 1, TRUE) : e \in { 0, 1, 2, 101, 102 } }
              \cup { Unwrap(l) : l \in { latest_ledger_info } \ { None } } :
        Paged("get_state_proof_with_ledger_info",
              [ known_version |-> known_version, ledger_info_with_sigs |-> li ],
              get_state_proof_with_ledger_info(db, latest_ledger_info, overflow_checks,
                                               known_version, li))

EpochNext ==
    \/ DbReader_get_epoch_ending_ledger_infos
    \/ DbReader_get_state_proof_with_ledger_info

EpochSpec == EpochInit /\ [][EpochNext]_vars

\* ---------------------------------------------------------------- the pruner

\* The retention window W of the pruner.
PruneWindow == 1

\* The families whose entries of a version the pruner deletes with it.
PrunedCFs ==
    { EVENT_CF_NAME, TRANSACTION_CF_NAME, WRITE_SET_CF_NAME,
      TRANSACTION_INFO_CF_NAME, TRANSACTION_ACCUMULATOR_CF_NAME,
      LEDGER_COUNTERS_CF_NAME }

\* The engine after the pruner deleted, from each store, the entries with
\* version <= target, and the state-tree nodes the stale-node index lists as
\* obsolete since a version <= target (the snapshot of version v is obsolete
\* since v + 1).
Pruned(d, target) ==
    LET kept == { k \in DOMAIN d :
                    /\ k[1] \in PrunedCFs => k[2] > target
                    /\ k[1] = JELLYFISH_MERKLE_NODE_CF_NAME => k[2] + 1 > target }
    IN  [ k \in kept |-> d[k] ]

\* The pruner thread, woken with latest_version, deletes what lies at or
\* below latest_version - W.
Pruner_prune ==
    /\ IsSome(pruner)
    /\ Unwrap(pruner) # << >>
    /\ LET latest_version == Unwrap(pruner)[Len(Unwrap(pruner))]
       IN  /\ latest_version >= PruneWindow
           /\ db' = Pruned(db, latest_version - PruneWindow)
    /\ db' # db
    /\ UNCHANGED << committer_vars, reader, history, view_vars, page,
                    rocksdb_property_reporter >>

\* The committer and the pruner thread.
NextPrune == Next \/ Pruner_prune

\* The database opened with a pruner.
InitPrune == Init /\ pruner = Some(<< >>)

PruneSpec == InitPrune /\ [][NextPrune]_vars

\* ------------------------------------------- the RocksdbPropertyReporter

\* The sampling rounds followed.
MaxSamples == 5

\* The reporter takes a step to f; the database is not touched.
ReporterStep(f) ==
    /\ rocksdb_property_reporter' = f
    /\ UNCHANGED << db, committer_vars, reader, history, view_vars, page >>

\* update_rocksdb_properties in the thread: the properties of the next column
\* family are read and set, or get_property fails, which ends the round with
\* the warning.
Reporter_update_rocksdb_properties ==
    LET r == rocksdb_property_reporter IN
    /\ r.thread = "sample"
    /\ r.cf < NumColumnFamilies
    /\ \/ ReporterStep([ r EXCEPT !.cf = @ + 1 ])
       \/ ReporterStep([ r EXCEPT !.thread = "recv", !.cf = 0,
                                   !.samples = @ + 1, !.failed = @ + 1 ])

\* update_rocksdb_properties returns Ok: the thread goes on to recv_timeout.
Reporter_updated ==
    LET r == rocksdb_property_reporter IN
    /\ r.thread = "sample"
    /\ r.cf = NumColumnFamilies
    /\ ReporterStep([ r EXCEPT !.thread = "recv", !.cf = 0, !.samples = @ + 1 ])

\* recv.recv_timeout(10 s) returns: Ok(()) for a message and Disconnected for
\* an empty channel without sender break the loop, Timeout for an empty
\* channel starts the next round.
Reporter_recv_timeout ==
    LET r == rocksdb_property_reporter IN
    /\ r.thread = "recv"
    /\ IF r.channel > 0
       THEN ReporterStep([ r EXCEPT !.thread = "exited", !.channel = @ - 1 ])
       ELSE IF r.owner = "dropped"
       THEN ReporterStep([ r EXCEPT !.thread = "exited" ])
       ELSE /\ r.samples < MaxSamples
            /\ ReporterStep([ r EXCEPT !.thread = "sample", !.timeouts = @ + 1 ])

\* Drop::drop: sender.lock().unwrap().send(()).unwrap(), which panics when
\* the receiver is gone.
Drop_send ==
    LET r == rocksdb_property_reporter IN
    /\ r.owner = "alive"
    /\ IF r.thread = "exited"
       THEN ReporterStep([ r EXCEPT !.owner = "panicked" ])
       ELSE ReporterStep([ r EXCEPT !.owner = "joining", !.channel = @ + 1,
                                    !.sent = @ + 1 ])

\* Drop::drop returning without the join.
Drop_without_join ==
    LET r == rocksdb_property_reporter IN
    /\ r.owner = "joining"
    /\ ReporterStep([ r EXCEPT !.owner = "dropped" ])

\* Drop::drop: join_handle.take().expect(..).join() returns once the thread
\* has terminated; drop returns and the sender is dropped with the struct.
Drop_join ==
    LET r == rocksdb_property_reporter IN
    /\ r.owner = "joining"
    /\ r.thread = "exited"
    /\ ReporterStep([ r EXCEPT !.owner = "dropped" ])

\* The reporter thread.
ReporterThread ==
    \/ Reporter_update_rocksdb_properties
    \/ Reporter_updated
    \/ Reporter_recv_timeout

ReporterNext ==
    \/ ReporterThread
    \/ Drop_send
    \/ Drop_join

\* The facade just opened: nothing committed, the reporter spawned.
ReporterInit == Init /\ pruner = None /\ overflow_checks

ReporterSpec == ReporterInit /\ [][ReporterNext]_vars

\* The thread is scheduled, every sampling step terminates, and join returns
\* once the thread has terminated.
ReporterLiveSpec ==
    ReporterSpec /\ WF_vars(ReporterThread) /\ WF_vars(Drop_join)

\* ------------------------------------------------- the facade's latency

\* TransactionStore::get_first_txn_version: the lowest version with a
\* transaction.
get_first_txn_version(d) ==
    LET vs == VersionsIn(d, TRANSACTION_CF_NAME)
    IN  IF vs = {} THEN None ELSE Some(CHOOSE v \in vs : \A w \in vs : v <= w)

\* DbReader::get_transaction_by_version is called.
DbReader_get_transaction_by_version ==
    \E version \in 0 .. 3, ledger_version \in 0 .. 3, fetch_events \in BOOLEAN :
        LET t == TransactionWithProof(db, version, ledger_version, fetch_events)
        IN  Paged("get_transaction_by_version",
                  [ version |-> version, ledger_version |-> ledger_version,
                    fetch_events |-> fetch_events ],
                  PageResult(t.kind, IF t.kind = "Ok" THEN << t >> ELSE << >>,
                             << "get_transaction_with_proof" >>))

\* DbReader::get_first_txn_version is called.
DbReader_get_first_txn_version ==
    Paged("get_first_txn_version", << >>,
          PageResult("Ok", << get_first_txn_version(db) >>,
                     << "get_first_txn_version" >>))

\* The read APIs of the facade, with and without gauged_api.
ApiNext ==
    \/ PageNext
    \/ DbReader_get_transaction_by_version
    \/ DbReader_get_first_txn_version

ApiSpec == PageInit /\ [][ApiNext]_vars

\* ------------------------------------------------------ the latest value

\* The value a state snapshot holds for a key: the snapshot of payload c
\* holds c under every key but "a2", which only later payloads create.
ValueIn(snapshot, state_store_key) ==
    IF state_store_key = "a2" /\ snapshot[2] = 1 THEN None
    ELSE Some(<< state_store_key, snapshot[2] >>)

\* StateStore::get_value_with_proof_by_version: the value of the key in the
\* snapshot of `version`, an error when that version has no snapshot.
get_value_with_proof_by_version(d, state_store_key, version) ==
    LET snapshot == Get(d, JELLYFISH_MERKLE_NODE_CF_NAME, << version >>)
    IN  IF IsSome(snapshot)
        THEN PageResult("Ok", << ValueIn(Unwrap(snapshot), state_store_key) >>,
                        << "get_value_with_proof_by_version" >>)
        ELSE PageResult("NotFound", << >>, << "get_value_with_proof_by_version" >>)

\* get_latest_value reading at the latest committed version.
get_latest_value_at_tip(d, latest, state_store_key) ==
    IF ~IsSome(LatestVersion(d)) THEN PageResult("NotFound", << >>, << >>)
    ELSE get_value_with_proof_by_version(d, state_store_key, Unwrap(LatestVersion(d)))

\* AptosDB::get_latest_value
get_latest_value(d, latest, state_store_key) ==
    IF ~IsSome(latest) THEN PageResult("NotFound", << >>, << >>)
    ELSE get_value_with_proof_by_version(d, state_store_key, Unwrap(latest).version)

\* DbReader::get_latest_value is called.
DbReader_get_latest_value ==
    \E state_store_key \in Addresses :
        Paged("get_latest_value", [ state_store_key |-> state_store_key ],
              get_latest_value(db, latest_ledger_info, state_store_key))

\* The committer and a reader of the latest value.
ValueNext == Next \/ DbReader_get_latest_value

ValueSpec == Init /\ [][ValueNext]_vars

\* ------------------------------------------------------------ properties

\* The shared state p's call found when it was entered.
Before(p) == Unwrap(before[p])

InCall(p) == IsSome(args[p])

Failed(p) == pc[p] = "done" /\ result[p] \notin { "Ok", "None" }

\* Everything the call of p was asked to persist is in engine state d.
AllApplied(p, d) ==
    /\ \A i \in 1 .. NumTxns(p) :
        LET v == FirstVersion(p) + i - 1
            t == Txns(p)[i]
        IN  /\ Get(d, JELLYFISH_MERKLE_NODE_CF_NAME, << v >>) = Some(t.state_store_value_set)
            /\ \A j \in 1 .. Len(t.events) :
                 Get(d, EVENT_CF_NAME, << v, j - 1 >>) = Some(t.events[j])
            /\ Get(d, TRANSACTION_CF_NAME, << v >>) = Some(t.transaction)
            /\ Get(d, WRITE_SET_CF_NAME, << v >>) = Some(t.write_set)
            /\ Get(d, TRANSACTION_INFO_CF_NAME, << v >>) = Some(t.transaction_info)
            /\ IsSome(Get(d, TRANSACTION_ACCUMULATOR_CF_NAME, << v >>))
            /\ IsSome(Get(d, LEDGER_COUNTERS_CF_NAME, << v >>))
    /\ IsSome(LedgerInfoWithSigs(p)) =>
         LET x == Unwrap(LedgerInfoWithSigs(p))
         IN  Get(d, LEDGER_INFO_CF_NAME, << x.version >>) = Some(x)

C2_RootMismatchMutatesNothing ==
    \A p \in Committers :
        /\ (pc[p] = "done" /\ result[p] = "Err:RootMismatch") =>
                shared = Before(p) /\ cs[p] = << >>
        /\ (pc[p] = "done" /\ result[p] = "Ok" /\ IsSome(LedgerInfoWithSigs(p))) =>
                LET x == Unwrap(LedgerInfoWithSigs(p))
                IN  Get(db, TRANSACTION_ACCUMULATOR_CF_NAME, << x.version >>)
                        = Some(x.transaction_accumulator_hash)

\* C2 witness: a call that staged two transactions failed on the root check.
C2_Witness ==
    /\ pc["c1"] = "done"
    /\ result["c1"] = "Err:RootMismatch"
    /\ NumTxns("c1") = 2

\* li.version + 1 = first_version + num_txns, over the integers.
Applicable(p) ==
    Unwrap(LedgerInfoWithSigs(p)).version + 1 = FirstVersion(p) + NumTxns(p)

\* li.version + 1 = first_version + num_txns, as u64 arithmetic compares them.
ApplicableU64(p) ==
    WrappingAdd(Unwrap(LedgerInfoWithSigs(p)).version, 1)
        = WrappingAdd(FirstVersion(p), NumTxns(p))

\* C3: a call with a ledger info li is rejected by the input validation, with
\* nothing staged or written, unless li.version + 1 = first_version +
\* num_txns (as the code compares them, in u64), empty batch or not; and
\* when the two differ as integers the call never stages or writes anything
\* and never succeeds.
C3_NotApplicableRejected ==
    \A p \in Committers :
        (InCall(p) /\ IsSome(LedgerInfoWithSigs(p))) =>
            /\ ~ApplicableU64(p) =>
                /\ pc[p] = "done"
                /\ result[p] \in { "Err:NotApplicable", "Panic" }
                /\ cs[p] = << >>
                /\ shared = Before(p)
            /\ ~Applicable(p) =>
                /\ cs[p] = << >>
                /\ shared = Before(p)
                /\ result[p] # "Ok"

\* C3 witness: an empty batch with a ledger info not at first_version - 1 was
\* rejected.
C3_Witness ==
    /\ pc["c1"] = "done"
    /\ result["c1"] = "Err:NotApplicable"
    /\ NumTxns("c1") = 0
    /\ FirstVersion("c1") = 1

\* C4: a call with no ledger info and no transactions fails and writes
\* nothing; any other call is not refused for being empty.
C4_EmptyWithoutLedgerInfo ==
    \A p \in Committers :
        InCall(p) =>
            IF ~IsSome(LedgerInfoWithSigs(p)) /\ NumTxns(p) = 0
            THEN /\ pc[p] = "done"
                 /\ result[p] = "Err:Empty"
                 /\ cs[p] = << >>
                 /\ shared = Before(p)
            ELSE result[p] # "Err:Empty"

\* C4 witness: an empty call without a ledger info was refused after an
\* earlier call had written the ledger.
C4_Witness ==
    /\ pc["c1"] = "done"
    /\ result["c1"] = "Err:Empty"
    /\ db # EmptyDB

\* C5: the in-memory latest ledger info changes only in the step after the
\* write, to the ledger info of a call whose whole batch is in the engine;
\* after a failed call it is what it was when the call was entered.
C5_SetLatestAfterWrite ==
    [][ /\ latest_ledger_info' # latest_ledger_info =>
            \E p \in Committers :
                /\ pc[p] = "set_latest"
                /\ latest_ledger_info' = LedgerInfoWithSigs(p)
                /\ AllApplied(p, db)
        /\ \A p \in Committers :
            Failed(p)' => latest_ledger_info' = Before(p)'[2] ]_vars

\* C5 witness: the write of a call with a ledger info failed.
C5_Witness ==
    /\ pc["c1"] = "done"
    /\ result["c1"] = "Err:Engine"
    /\ IsSome(LedgerInfoWithSigs("c1"))
    /\ IsSome(latest_ledger_info)

\* C6: the in-memory latest ledger info is never ahead of the
\* latest committed version, and equals it when a call with a ledger info has
\* returned Ok.
C6_LedgerInfoVersion ==
    /\ IsSome(latest_ledger_info) =>
        /\ IsSome(LatestVersion(db))
        /\ Unwrap(latest_ledger_info).version <= Unwrap(LatestVersion(db))
    /\ \A p \in Committers :
        (pc[p] = "done" /\ result[p] = "Ok" /\ IsSome(LedgerInfoWithSigs(p))) =>
            Some(Unwrap(latest_ledger_info).version) = LatestVersion(db)

\* C7: the persisted versions are exactly 0..latest, and no
\* step gives a persisted version another content.
C7_ContiguousNoRewrite ==
    [][ /\ LET vs == VersionsIn(db', TRANSACTION_INFO_CF_NAME)
           IN  vs # {} => vs = 0 .. Unwrap(LatestVersion(db'))
        /\ \A k \in DOMAIN db :
            k[1] \in { TRANSACTION_CF_NAME, TRANSACTION_INFO_CF_NAME, EVENT_CF_NAME }
                => db'[k] = db[k] ]_vars

\* first_version directly extends the ledger held by engine state d.
Extends(d, first_version) ==
    first_version =
        IF IsSome(LatestVersion(d)) THEN Unwrap(LatestVersion(d)) + 1 ELSE 0

\* C8: a batch that does not directly extend the ledger's latest
\* version is rejected.
C8_OutOfOrderRejected ==
    \A p \in Committers :
        (pc[p] = "done" /\ result[p] = "Ok") =>
            Extends(Before(p)[1], FirstVersion(p))

\* The place of a column family in the order of staging.
Rank(cf) ==
    CASE cf = JELLYFISH_MERKLE_NODE_CF_NAME -> 1
      [] cf = EVENT_CF_NAME -> 2
      [] cf \in { TRANSACTION_CF_NAME, WRITE_SET_CF_NAME } -> 3
      [] cf \in { TRANSACTION_INFO_CF_NAME, TRANSACTION_ACCUMULATOR_CF_NAME } -> 4
      [] cf = LEDGER_INFO_CF_NAME -> 5
      [] cf = LEDGER_COUNTERS_CF_NAME -> 6

\* The highest rank staged when a call stands at a place.
RankAt(place) ==
    CASE place = "impl_state" -> 0
      [] place = "impl_events" -> 1
      [] place = "impl_txns" -> 2
      [] place = "impl_txn_infos" -> 3
      [] place = "check_root" -> 4
      [] place = "seal" -> 5
      [] place = "commit" -> 6
      [] OTHER -> 0

\* The versions of the entries of family cf in a batch, in staging order.
RECURSIVE StagedVersions(_, _)
StagedVersions(batch, cf) ==
    IF batch = << >> THEN << >>
    ELSE IF Head(batch).key[1] = cf
         THEN << Head(batch).key[2] >> \o StagedVersions(Tail(batch), cf)
         ELSE StagedVersions(Tail(batch), cf)

\* C9: the batch of a call is staged in the order state, events,
\* transactions and write sets, transaction infos and accumulator, ledger
\* info, counters: at each place of the call only the families of the earlier
\* steps are staged, each family's entries come by ascending version, the
\* ledger info is staged only when provided and equal in root to the computed
\* one, and when the call stands before the write everything it was asked to
\* persist is staged and the engine is untouched.
C9_StagingOrder ==
    \A p \in Committers :
        /\ \A i \in 1 .. Len(cs[p]) :
            /\ Rank(cs[p][i].key[1]) <= RankAt(pc[p])
            /\ \A j \in 1 .. Len(cs[p]) :
                i < j => Rank(cs[p][i].key[1]) <= Rank(cs[p][j].key[1])
        /\ \A cf \in { EVENT_CF_NAME, TRANSACTION_CF_NAME } :
            LET vs == StagedVersions(cs[p], cf)
            IN  \A i \in 1 .. Len(vs), j \in 1 .. Len(vs) : i < j => vs[i] <= vs[j]
        /\ \A i \in 1 .. Len(cs[p]) :
            cs[p][i].key[1] = LEDGER_INFO_CF_NAME =>
                /\ Some(cs[p][i].value) = LedgerInfoWithSigs(p)
                /\ cs[p][i].value.transaction_accumulator_hash = new_root_hash[p]
        /\ pc[p] = "commit" =>
            /\ AllApplied(p, write_schemas(EmptyDB, cs[p]))
            /\ db = Before(p)[1]

\* C9 witness: a call with two transactions, events and a ledger info stands
\* before the write.
C9_Witness ==
    /\ pc["c1"] = "commit"
    /\ NumTxns("c1") = 2
    /\ IsSome(LedgerInfoWithSigs("c1"))
    /\ \E i \in 1 .. Len(cs["c1"]) : cs["c1"][i].key[1] = EVENT_CF_NAME

\* The versions batch b holds.
BatchVersions(b) ==
    { b.first_version + i - 1 : i \in 1 .. Len(b.txns_to_commit) }

\* No version was written by two batches.
WrittenOnce ==
    \A i \in 1 .. Len(history), j \in 1 .. Len(history) :
        i < j => BatchVersions(history[i]) \cap BatchVersions(history[j]) = {}

\* The TransactionToCommit a batch of the history holds for version v.
Committed(v) ==
    LET i == CHOOSE i \in 1 .. Len(history) : v \in BatchVersions(history[i])
    IN  history[i].txns_to_commit[v - history[i].first_version + 1]

\* C10: when every version was written by one batch only, a
\* get_transaction_by_version(v, ledger_version, fetch_events = true) with
\* v <= ledger_version, entered when ledger_version was committed, does not
\* miss the transaction, and returns the transaction, the events and (in the
\* transaction info of the proof) the status of the TransactionToCommit
\* committed at v.
C10_RoundTrip ==
    ( /\ reader.pc = "done"
      /\ WrittenOnce
      /\ reader.fetch_events
      /\ reader.version <= reader.ledger_version
      /\ IsSome(reader.latest_at_entry)
      /\ reader.ledger_version <= Unwrap(reader.latest_at_entry) ) =>
        /\ reader.result \in { "Ok", "Err:Engine" }
        /\ reader.result = "Ok" =>
            LET t == Committed(reader.version) IN
            /\ reader.transaction = Some(t.transaction)
            /\ reader.events = Some(t.events)
            /\ Unwrap(reader.proof).transaction_info = t.transaction_info
            /\ Unwrap(reader.proof).transaction_info.status = t.transaction_info.status

\* C10 witness: after a batch without a ledger info and a second batch with
\* one, the second version was read with its event.
C10_Witness ==
    /\ reader.pc = "done"
    /\ reader.result = "Ok"
    /\ reader.fetch_events
    /\ reader.version = 1
    /\ reader.latest_at_entry = Some(1)
    /\ reader.events # Some(<< >>)
    /\ WrittenOnce
    /\ Len(history) = 2
    /\ ~IsSome(Before("c1")[2])
    /\ IsSome(LedgerInfoWithSigs("c1"))
    /\ result["c1"] = "Ok"

\* C11: in every state a version holds a transaction info exactly when it
\* holds a transaction, and the two are those of one TransactionToCommit.
C11_InfoAndTransactionTogether ==
    \A v \in VersionsIn(db, TRANSACTION_INFO_CF_NAME)
                \cup VersionsIn(db, TRANSACTION_CF_NAME) :
        LET info == Get(db, TRANSACTION_INFO_CF_NAME, << v >>)
            txn  == Get(db, TRANSACTION_CF_NAME, << v >>)
        IN  /\ IsSome(info) <=> IsSome(txn)
            /\ IsSome(info) =>
                \E c \in Payloads :
                    /\ Unwrap(txn) = TransactionToCommit(c).transaction
                    /\ Unwrap(info) = TransactionToCommit(c).transaction_info

\* C11 witness: two calls have written versions 0 and 1.
C11_Witness ==
    /\ Len(history) = 2
    /\ IsSome(Get(db, TRANSACTION_INFO_CF_NAME, << 0 >>))
    /\ IsSome(Get(db, TRANSACTION_CF_NAME, << 1 >>))

\* The overlay leaves key k to persistent storage.
FromDB(k) == view.speculative_state[k].status \in { "ExistsInDB", "Unknown" }

\* What the state of the latest persistent root holds at key k.
Authentic(k) == StateAt(view.latest_persistent_state_root)[k]

\* Option::unwrap_or_default on a blob.
OrDefault(o) == IF IsSome(o) THEN Unwrap(o) ELSE "default"

\* Every value and proof that came from persistent storage is the one the
\* latest persistent root commits to.
Anchored ==
    /\ \A k \in DOMAIN state_proof_cache :
        verify(state_proof_cache[k], view.latest_persistent_state_root,
               k, Authentic(k))
    /\ \A k \in DOMAIN state_cache :
        FromDB(k) => state_cache[k] = OrDefault(Authentic(k))
    /\ \A t \in Threads :
        LET g == gets[t] IN
        /\ g.pc = "insert_proof" =>
            /\ g.value = Authentic(g.address)
            /\ verify(Unwrap(g.proof), view.latest_persistent_state_root,
                      g.address, g.value)
        /\ (g.pc = "insert" /\ FromDB(g.address)) => g.value = Authentic(g.address)
        /\ (g.pc = "done" /\ FromDB(g.address) /\ Unwrap(g.result).kind = "Ok") =>
            Unwrap(g.result).value = Field(OrDefault(Authentic(g.address)), g.path)

\* C12: what get caches or returns from persistent storage has a proof that
\* verifies against latest_persistent_state_root and the key hash; a get whose
\* proof does not verify returns the error naming the address and the root,
\* and no step of such a get changes state_cache or state_proof_cache (the
\* caches change only in the steps after a successful verification).
C12_OnlyVerifiedValues ==
    [][ /\ Anchored'
        /\ \A t \in Threads :
            ( /\ gets'[t] # gets[t]
              /\ gets'[t].pc = "done"
              /\ Unwrap(gets'[t].result).kind = "ProofInvalid" ) =>
                /\ gets[t].pc = "query"
                /\ Unwrap(gets'[t].result).address = gets[t].address
                /\ Unwrap(gets'[t].result).root = view.latest_persistent_state_root
                /\ state_cache' = state_cache
                /\ state_proof_cache' = state_proof_cache
        /\ (state_cache' # state_cache \/ state_proof_cache' # state_proof_cache) =>
            \E t \in Threads :
                /\ gets'[t] # gets[t]
                /\ gets[t].pc \in { "insert_proof", "insert" } ]_vars

\* C12 witness: a get failed on its proof after another key was read from
\* persistent storage and cached with its proof.
C12_Witness ==
    \E t \in Threads :
        /\ gets[t].pc = "done"
        /\ Unwrap(gets[t].result).kind = "ProofInvalid"
        /\ \E k \in DOMAIN state_cache \cap DOMAIN state_proof_cache :
            /\ k # gets[t].address
            /\ state_cache[k] # "default"

\* C13: get resolves a key by the value cache, then the overlay, then
\* persistent storage. A lookup that hits state_cache returns the field of the
\* cached value at once; only a lookup that missed asks the overlay; the
\* reader is queried and a proof inserted only after a miss and an overlay
\* answer of ExistsInDB or Unknown; for ExistsInScratchPad(v') get returns the
\* field of v' and for DoesNotExist no value, in both cases without a query of
\* the reader and without a proof in state_proof_cache.
C13_ResolutionOrder ==
    [][ /\ \A t \in Threads :
            LET g == gets[t]
                h == gets'[t]
                st == view.speculative_state[h.address]
            IN  /\ (g.pc \in { "idle", "done" } /\ h # g) =>
                    IF h.address \in DOMAIN state_cache
                    THEN /\ h.pc = "done"
                         /\ Unwrap(h.result).kind = "Ok"
                         /\ Unwrap(h.result).value =
                                Field(state_cache[h.address], h.path)
                         /\ ~h.queried
                    ELSE h.pc = "overlay"
                /\ (h.pc = "query" /\ h # g) => (g.pc = "overlay" /\ FromDB(h.address))
                /\ (h.queried /\ ~g.queried) => (g.pc = "query" /\ FromDB(h.address))
                /\ (h.pc = "insert_proof" /\ h # g) => g.pc = "query"
                /\ ~FromDB(h.address) =>
                    /\ ~h.queried
                    /\ h.pc \notin { "query", "insert_proof" }
                    /\ h.pc = "done" =>
                        /\ Unwrap(h.result).kind = "Ok"
                        /\ Unwrap(h.result).value =
                               IF st.status = "ExistsInScratchPad"
                               THEN Field(st.blob, h.path) ELSE None
        /\ state_proof_cache' # state_proof_cache =>
            \E t \in Threads :
                /\ gets[t].pc = "insert_proof"
                /\ gets'[t] # gets[t]
                /\ FromDB(gets[t].address)
        /\ \A k \in DOMAIN state_proof_cache' : FromDB(k) ]_vars

\* C13 witness: a key of the scratch pad was read, with a value, beside a
\* key read from persistent storage with its proof.
C13_Witness ==
    \E t \in Threads :
        /\ gets[t].pc = "done"
        /\ view.speculative_state[gets[t].address].status = "ExistsInScratchPad"
        /\ Unwrap(gets[t].result).value = Some("z")
        /\ gets[t].n = 2
        /\ DOMAIN state_proof_cache # {}
        /\ gets[t].address \notin DOMAIN state_proof_cache

\* C14: a get that follows, on the same thread, a get of the same access
\* path that returned a value returns at once with the same value: it does not
\* query the reader and changes neither state_proof_cache nor state_cache, so
\* the two calls insert at most one proof for the key.
C14_SecondGetFromCache ==
    [][ \A t \in Threads :
            LET g == gets[t]
                h == gets'[t]
            IN  ( /\ g.pc = "done"
                  /\ h # g
                  /\ Unwrap(g.result).kind = "Ok"
                  /\ h.address = g.address
                  /\ h.path = g.path ) =>
                    /\ h.pc = "done"
                    /\ h.result = g.result
                    /\ ~h.queried
                    /\ state_proof_cache' = state_proof_cache
                    /\ state_cache' = state_cache ]_vars

\* C14 witness: the second get of a DB-backed key, whose first get queried
\* the reader and inserted the proof, has returned a value.
C14_Witness ==
    \E t \in Threads :
        /\ gets[t].pc = "done"
        /\ gets[t].n = 2
        /\ ~gets[t].queried
        /\ FromDB(gets[t].address)
        /\ gets[t].address \in DOMAIN state_proof_cache
        /\ Unwrap(gets[t].result).value = Some("x")
        /\ \A u \in Threads \ { t } : gets[u].n = 0

\* C15: under every interleaving of gets, a key's entry in state_cache is
\* written once, when the key is absent, and never changes or disappears; and
\* every get that returns a value returns the field of the entry its key
\* has in state_cache.
C15_SingleCachedValue ==
    [][ /\ \A k \in DOMAIN state_cache :
            /\ k \in DOMAIN state_cache'
            /\ state_cache'[k] = state_cache[k]
        /\ state_cache' # state_cache =>
            \E t \in Threads :
                /\ gets[t].pc = "insert"
                /\ gets'[t] # gets[t]
                /\ gets[t].address \notin DOMAIN state_cache
                /\ DOMAIN state_cache' = DOMAIN state_cache \cup { gets[t].address }
        /\ \A t \in Threads :
            ( /\ gets'[t] # gets[t]
              /\ gets'[t].pc = "done"
              /\ Unwrap(gets'[t].result).kind = "Ok" ) =>
                /\ gets'[t].address \in DOMAIN state_cache'
                /\ Unwrap(gets'[t].result).value =
                       Field(state_cache'[gets'[t].address], gets'[t].path) ]_vars

\* C15 witness: two threads missed the cache for the same key, both queried
\* the reader, and both have returned the value.
C15_Witness ==
    /\ \A t \in Threads :
        /\ gets[t].pc = "done"
        /\ gets[t].n = 1
        /\ gets[t].queried
        /\ gets[t].address = "a1"
        /\ Unwrap(gets[t].result).kind = "Ok"
    /\ state_cache["a1"] = "b2"

\* C16: a paged read (get_transactions, get_transaction_outputs,
\* get_account_transactions, get_events, get_events_with_proofs) whose limit
\* exceeds MAX_LIMIT fails with TooManyRequested(limit, MAX_LIMIT), having
\* read nothing from the stores.
C16_TooManyRequested ==
    (IsSome(page.result) /\ page.args.limit > MAX_LIMIT) =>
        /\ Unwrap(page.result).kind = "TooManyRequested"
        /\ Unwrap(page.result).items = << page.args.limit, MAX_LIMIT >>
        /\ Unwrap(page.result).reads = << >>

\* C17: a paged read whose limit is 0 or at most MAX_LIMIT is not refused
\* on account of its limit, by any of the paged reads and in either order.
C17_LimitHonored ==
    (IsSome(page.result) /\ page.args.limit <= MAX_LIMIT) =>
        Unwrap(page.result).kind \notin { "TooManyRequested", "LimitZero" }

\* C18: get_first_seq_num_and_limit(order, cursor, limit) fails for limit = 0
\* and for limit > 0 returns (cursor, limit) when ascending, (cursor - limit
\* + 1, limit) when descending with limit <= cursor, and (0, cursor + 1) when
\* descending otherwise; the ascending range returned for a descending request
\* is [max(0, cursor - limit + 1), cursor].
C18_FirstSeqNumAndLimit ==
    (page.api = "get_first_seq_num_and_limit" /\ IsSome(page.result)) =>
        LET order == page.args.order
            cursor == page.args.cursor
            limit == page.args.limit
            r == Unwrap(page.result)
            first == Unwrap(r)[1]
            count == Unwrap(r)[2]
        IN  IF limit = 0 THEN r = None
            ELSE /\ IsSome(r)
                 /\ order = "Ascending" => r = Some(<< cursor, limit >>)
                 /\ (order = "Descending" /\ limit <= cursor) =>
                        r = Some(<< cursor - limit + 1, limit >>)
                 /\ (order = "Descending" /\ limit > cursor) =>
                        r = Some(<< 0, cursor + 1 >>)
                 /\ order = "Descending" =>
                        /\ first = (IF cursor - limit + 1 > 0
                                    THEN cursor - limit + 1 ELSE 0)
                        /\ first + count - 1 = cursor
                        /\ count <= limit

\* C18 witness: a descending request reaching below 0 was clamped.
C18_Witness ==
    /\ page.api = "get_first_seq_num_and_limit"
    /\ page.args = [ order |-> "Descending", cursor |-> 2, limit |-> 5 ]
    /\ page.result = Some(Some(<< 0, 3 >>))

\* The ledger version an event read is answered at.
PageLedgerVersion ==
    IF IsSome(page.args.known_version) THEN Unwrap(page.args.known_version)
    ELSE Unwrap(latest_ledger_info).version

\* The sequence numbers of the events an event read returned, in order.
ReturnedSeqs ==
    LET items == Unwrap(page.result).items
    IN  [ i \in 1 .. Len(items) |->
            IF page.api = "get_events" THEN items[i][2].sequence_number
            ELSE items[i].event.sequence_number ]

\* An event read that passed the limit checks and resolved its version.
EventRead(order) ==
    /\ page.api \in { "get_events", "get_events_with_proofs" }
    /\ IsSome(page.result)
    /\ page.args.order = order
    /\ page.args.limit > 0
    /\ page.args.limit <= MAX_LIMIT
    /\ IsSome(page.args.known_version) \/ IsSome(latest_ledger_info)

\* C19: a descending event read with an explicit cursor (start_seq_num #
\* u64::MAX) beyond the latest sequence number of the key at the ledger
\* version returns the empty list, not an error and not a partial list; with
\* the cursor at or below the latest sequence number (and the ledger version
\* committed) it returns a non-empty list that starts at the cursor and
\* descends by one, of at most limit events.
C19_DescendingExplicitCursor ==
    (EventRead("Descending") /\ page.args.start # U64_MAX) =>
        LET latest == get_latest_sequence_number(db, PageLedgerVersion,
                                                 page.args.event_key)
            r == Unwrap(page.result)
            cursor == page.args.start
        IN  IF ~IsSome(latest) \/ cursor > Unwrap(latest)
            THEN /\ r.kind \in { "Ok", "Engine" }
                 /\ r.items = << >>
            ELSE /\ PageLedgerVersion < Len(EventsPerVersion) =>
                        r.kind \in { "Ok", "Engine" }
                 /\ r.kind = "Ok" =>
                        /\ r.items # << >>
                        /\ Len(r.items) <= page.args.limit
                        /\ Len(r.items) = (IF page.args.limit <= cursor + 1
                                           THEN page.args.limit ELSE cursor + 1)
                        /\ \A i \in 1 .. Len(r.items) :
                             ReturnedSeqs[i] = cursor - (i - 1)

\* C19 witness: a cursor beyond the tip, whose range overlaps the events, got
\* the empty list.
C19_Witness ==
    /\ EventRead("Descending")
    /\ page.args.event_key = "k1"
    /\ page.args.start = 5
    /\ page.args.limit = 5
    /\ page.args.known_version = Some(2)
    /\ Unwrap(page.result) = PageResult("Ok", << >>, << "lookup_events_by_key" >>)

\* C20: a descending event read with start_seq_num = u64::MAX returns, of the
\* n events the key has at the ledger version, the min(limit, n) with the
\* highest sequence numbers, highest first; the empty list when n = 0.
C20_DescendingLatest ==
    (EventRead("Descending") /\ page.args.start = U64_MAX) =>
        LET latest == get_latest_sequence_number(db, PageLedgerVersion,
                                                 page.args.event_key)
            n == IF IsSome(latest) THEN Unwrap(latest) + 1 ELSE 0
            r == Unwrap(page.result)
        IN  /\ PageLedgerVersion < Len(EventsPerVersion) => r.kind \in { "Ok", "Engine" }
            /\ n = 0 => r.kind \in { "Ok", "Engine" }
            /\ r.kind = "Ok" =>
                /\ Len(r.items) = (IF page.args.limit <= n THEN page.args.limit ELSE n)
                /\ \A i \in 1 .. Len(r.items) : ReturnedSeqs[i] = n - i

\* C20 witness: of the three events the key has at version 1, get_events
\* returned all three, latest first, for a limit of 5.
C20_Witness ==
    /\ EventRead("Descending")
    /\ page.api = "get_events"
    /\ page.args.start = U64_MAX
    /\ page.args.limit = 5
    /\ latest_ledger_info = Some(PagedLedgerInfo(1))
    /\ Unwrap(page.result).kind = "Ok"
    /\ ReturnedSeqs = << 2, 1, 0 >>

\* C21: get_epoch_ending_ledger_infos(start, end) returns an error without
\* reading any epoch-ending ledger info when start > end (refused first, so
\* that end - start is not computed) or when end is beyond next_block_epoch()
\* of the latest ledger info.
C21_EpochRangeRefused ==
    (page.api = "get_epoch_ending_ledger_infos" /\ IsSome(page.result)) =>
        LET a == page.args
            r == Unwrap(page.result)
        IN  /\ a.start_epoch > a.end_epoch =>
                /\ r.kind = "BadRange"
                /\ r.reads = << >>
            /\ ( /\ a.start_epoch <= a.end_epoch
                 /\ IsSome(latest_ledger_info)
                 /\ a.end_epoch > next_block_epoch(Unwrap(latest_ledger_info)) ) =>
                /\ r.kind \in { "BadRange", "Engine" }
                /\ r.reads = << "get_latest_ledger_info" >>

\* C21 witness: epoch 103 is the open epoch and the epochs [0, 104) were
\* asked for.
C21_Witness ==
    /\ page.api = "get_epoch_ending_ledger_infos"
    /\ page.args = [ start_epoch |-> 0, end_epoch |-> 104 ]
    /\ latest_ledger_info = Some(EpochLedgerInfo(206, FALSE))
    /\ page.result = Some(PageResult("BadRange", << >>, << "get_latest_ledger_info" >>))

\* C22: an accepted get_epoch_ending_ledger_infos(s, e) returns the stored
\* ledger infos that ended the epochs s, s + 1, ..., min(e, s + 100) - 1, in
\* this order, and more is true exactly when e - s > 100; a store that lacks
\* one of them makes the call fail.
C22_EpochPage ==
    (page.api = "get_epoch_ending_ledger_infos" /\ IsSome(page.result)
        /\ Unwrap(page.result).kind = "Ok") =>
        LET s == page.args.start_epoch
            e == page.args.end_epoch
            lis == Unwrap(page.result).items[1]
            more == Unwrap(page.result).items[2]
        IN  /\ s <= e
            /\ Len(lis) = (IF e - s <= 100 THEN e - s ELSE 100)
            /\ more <=> (e - s > 100)
            /\ \A i \in 1 .. Len(lis) :
                 /\ lis[i].epoch = s + i - 1
                 /\ ends_epoch(lis[i])
                 /\ Get(db, LEDGER_INFO_CF_NAME, << lis[i].version >>) = Some(lis[i])
                 /\ Get(db, EPOCH_BY_VERSION_CF_NAME, << lis[i].version >>)
                        = Some(lis[i].epoch)

\* C22 witness: of the epochs [2, 103) the first hundred were returned, with
\* more to come.
C22_Witness ==
    /\ page.api = "get_epoch_ending_ledger_infos"
    /\ page.args = [ start_epoch |-> 2, end_epoch |-> 103 ]
    /\ IsSome(page.result)
    /\ Unwrap(page.result).kind = "Ok"
    /\ Len(Unwrap(page.result).items[1]) = 100
    /\ Unwrap(page.result).items[1][100] = EpochLedgerInfo(203, TRUE)
    /\ Unwrap(page.result).items[2] = TRUE

\* C23: get_state_proof_with_ledger_info(known_version, li) fails when
\* known_version > li.version; its consistency proof runs from known_version
\* to li.version when the epoch change proof is complete and to the version
\* of the last ledger info of the epoch change proof when more is true; the
\* epoch change proof is empty and complete when the epoch of known_version
\* is not below li.next_block_epoch().
C23_StateProof ==
    (page.api = "get_state_proof_with_ledger_info" /\ IsSome(page.result)) =>
        LET known_version == page.args.known_version
            li == page.args.ledger_info_with_sigs
            r == Unwrap(page.result)
        IN  /\ known_version > li.version => r.kind = "BadRequest"
            /\ r.kind = "Ok" =>
                LET proof == r.items[1]
                    ecp == proof.epoch_change_proof
                IN  /\ known_version <= li.version
                    /\ proof.ledger_info_with_sigs = li
                    /\ proof.consistency_proof.from = known_version
                    /\ ~ecp.more => proof.consistency_proof.to = li.version
                    /\ ecp.more =>
                         /\ ecp.ledger_info_with_sigs # << >>
                         /\ proof.consistency_proof.to
                              = ecp.ledger_info_with_sigs[
                                    Len(ecp.ledger_info_with_sigs)].version
                    /\ get_epoch(db, known_version) >= next_block_epoch(li) =>
                         ecp = EpochChangeProof(<< >>, FALSE)

\* C23 witness: a client at version 0 of a ledger in its epoch 103 got the
\* first hundred epoch changes and a consistency proof up to the last of them.
C23_Witness ==
    /\ page.api = "get_state_proof_with_ledger_info"
    /\ page.args.known_version = 0
    /\ page.args.ledger_info_with_sigs = EpochLedgerInfo(206, FALSE)
    /\ IsSome(page.result)
    /\ Unwrap(page.result).kind = "Ok"
    /\ Unwrap(page.result).items[1].epoch_change_proof.more
    /\ Unwrap(page.result).items[1].consistency_proof = [ from |-> 0, to |-> 199 ]

\* The state proof of a client inside the latest epoch has no epoch change.
C23_WitnessSameEpoch ==
    /\ page.api = "get_state_proof_with_ledger_info"
    /\ page.args.known_version = 206
    /\ page.args.ledger_info_with_sigs = EpochLedgerInfo(206, FALSE)
    /\ IsSome(page.result)
    /\ Unwrap(page.result).kind = "Ok"
    /\ Unwrap(page.result).items[1].epoch_change_proof = EpochChangeProof(<< >>, FALSE)

\* The versions some batch of the history wrote.
WrittenVersions == UNION { BatchVersions(history[i]) : i \in 1 .. Len(history) }

\* Version v is served in full at the latest version: the transaction with
\* its events and its proof, and the state snapshot.
Readable(v, latest) ==
    /\ TransactionWithProof(db, v, latest, TRUE).kind = "Ok"
    /\ IsSome(Get(db, JELLYFISH_MERKLE_NODE_CF_NAME, << v >>))
    /\ IsSome(Get(db, WRITE_SET_CF_NAME, << v >>))

C25_PrunerWokenOnce ==
    [][ /\ pruner' # pruner =>
            \E p \in Committers :
                /\ pc[p] = "bump"
                /\ pc'[p] = "done"
                /\ result'[p] = "Ok"
                /\ NumTxns(p) > 0
                /\ AllApplied(p, db)
                /\ db' = db
        /\ \A p \in Committers :
            (pc[p] # "done" /\ pc'[p] = "done" /\ InCall(p)) =>
                LET was == Before(p)[4]
                    latest_version ==
                        WrappingSub(WrappingAdd(FirstVersion(p), NumTxns(p)), 1)
                IN  IF result'[p] = "Ok" /\ NumTxns(p) > 0 /\ IsSome(was)
                    THEN pruner' = Some(Append(Unwrap(was), latest_version))
                    ELSE pruner' = was ]_vars

\* C25 witness: a call that committed the versions 0 and 1 has returned and
\* the pruner has its one wake-up, for version 1.
C25_Witness ==
    /\ pc["c1"] = "done"
    /\ result["c1"] = "Ok"
    /\ calls = 1
    /\ FirstVersion("c1") = 0
    /\ NumTxns("c1") = 2
    /\ pruner = Some(<< 1 >>)

\* C26: when a save_transactions call with num_txns > 0 has returned Ok, the
\* latest-account-count gauge holds the leaf count if get_leaf_count
\* succeeded and -2 if it returned an error (-1 standing for a state tree
\* that is not fully migrated); whatever get_leaf_count returned, the call
\* returned Ok.
C26_LatestAccountCount ==
    [][ \A p \in Committers :
          (pc[p] = "bump" /\ pc'[p] = "done") =>
              /\ result'[p] = "Ok"
              /\ IsSome(metrics'.get_leaf_count)
              /\ LET c == Unwrap(metrics'.get_leaf_count)
                 IN  metrics'.latest_account_count =
                         Some(IF c.kind = "Ok" THEN c.count ELSE -2) ]_vars

\* The gauge after a call during which get_leaf_count failed.
C26_GaugeAfterError ==
    /\ pc["c1"] = "done"
    /\ result["c1"] = "Ok"
    /\ metrics.get_leaf_count = Some([ kind |-> "Err", count |-> 0 ])
    /\ metrics.latest_account_count = Some(-1)

\* C27: the reporter thread samples once at once and then once per timeout of
\* recv_timeout; it leaves its loop only from recv_timeout, and exactly when
\* that found a message or a channel without sender; drop sends one message
\* and joins, so that the thread has terminated when drop has returned; and
\* a drop that has sent its message eventually returns.
C27_ReporterShutdown ==
    /\ [] LET r == rocksdb_property_reporter
          IN  /\ r.samples = r.timeouts + (IF r.thread = "sample" THEN 0 ELSE 1)
              /\ r.owner = "dropped" => (r.thread = "exited" /\ r.sent = 1)
              /\ r.sent <= 1
    /\ [][ LET r == rocksdb_property_reporter
               n == rocksdb_property_reporter'
           IN  /\ (r.thread # "exited" /\ n.thread = "exited") =>
                     /\ r.thread = "recv"
                     /\ r.channel > 0 \/ r.owner = "dropped"
               /\ (r.thread = "recv" /\ n.thread = "sample") =>
                     (r.channel = 0 /\ r.owner # "dropped") ]_vars
    /\ (rocksdb_property_reporter.owner = "joining")
          ~> (rocksdb_property_reporter.owner = "dropped")

\* C27 witness: the reporter was dropped after its thread had sampled twice;
\* the thread has terminated.
C27_Witness ==
    /\ rocksdb_property_reporter.owner = "dropped"
    /\ rocksdb_property_reporter.thread = "exited"
    /\ rocksdb_property_reporter.samples = 2
    /\ rocksdb_property_reporter.timeouts = 1
    /\ rocksdb_property_reporter.sent = 1

\* The call of p commits no transaction and carries a ledger info of version
\* first_version - 1 whose accumulator root is the root the ledger had at
\* that version when the call was entered.
EmptyBatchAtTip(p) ==
    /\ InCall(p)
    /\ NumTxns(p) = 0
    /\ IsSome(LedgerInfoWithSigs(p))
    /\ FirstVersion(p) >= 1
    /\ Unwrap(LedgerInfoWithSigs(p)).version = FirstVersion(p) - 1
    /\ BaseRoot(Before(p)[1], FirstVersion(p))
         = Some(Unwrap(LedgerInfoWithSigs(p)).transaction_accumulator_hash)

\* C28: a commit of zero transactions with a ledger info of version
\* first_version - 1 that carries the current accumulator root succeeds (an
\* I/O error of the engine apart); afterwards the latest ledger info is that
\* ledger info, the engine holds the same versions as before plus the ledger
\* info, and counters, gauges of the transactions and pruner are as before.
C28_EmptyBatchWithLedgerInfo ==
    \A p \in Committers :
        (pc[p] = "done" /\ EmptyBatchAtTip(p)) =>
            /\ result[p] \in { "Ok", "Err:Engine" }
            /\ result[p] = "Ok" =>
                LET x == Unwrap(LedgerInfoWithSigs(p))
                IN  /\ latest_ledger_info = Some(x)
                    /\ db = write_schemas(Before(p)[1], << put_ledger_info(x) >>)
                    /\ \A cf \in PerVersionCFs :
                         VersionsIn(db, cf) = VersionsIn(Before(p)[1], cf)
                    /\ metrics = [ Before(p)[3] EXCEPT
                                     !.ledger_version = Some(x.version) ]
                    /\ pruner = Before(p)[4]

\* C28 witness: after the commit of version 0 without ledger info, the empty
\* commit with the ledger info of version 0 has succeeded.
C28_Witness ==
    /\ pc["c1"] = "done"
    /\ EmptyBatchAtTip("c1")
    /\ result["c1"] = "Ok"
    /\ FirstVersion("c1") = 1
    /\ Before("c1")[2] = None
    /\ latest_ledger_info = LedgerInfoWithSigs("c1")
    /\ VersionsIn(db, TRANSACTION_CF_NAME) = { 0 }

\* C29: seal_change_set returns Some(counters), having staged the counter
\* snapshots of the versions first_version .. first_version + num_txns - 1
\* behind what the change set held, exactly when num_txns > 0; for num_txns =
\* 0 it returns None, adds nothing to the batch and, reading nothing, cannot
\* fail.
C29_SealComputesCounters ==
    [][ \A p \in Committers :
          (pc[p] = "seal" /\ pc'[p] # "seal") =>
              IF NumTxns(p) > 0
              THEN \/ pc'[p] = "done" /\ result'[p] = "Err:Engine"
                   \/ /\ pc'[p] = "commit"
                      /\ IsSome(counters'[p])
                      /\ Len(cs'[p]) = Len(cs[p]) + NumTxns(p)
                      /\ SubSeq(cs'[p], 1, Len(cs[p])) = cs[p]
                      /\ \A i \in 1 .. NumTxns(p) :
                           LET w == cs'[p][Len(cs[p]) + i]
                           IN  /\ w.key = << LEDGER_COUNTERS_CF_NAME,
                                             WrappingAdd(FirstVersion(p), i - 1) >>
                               /\ i = NumTxns(p) => counters'[p] = Some(w.value)
              ELSE /\ pc'[p] = "commit"
                   /\ counters'[p] = None
                   /\ cs'[p] = cs[p] ]_vars

\* C29 witness: the change set of a batch of two transactions is sealed, the
\* counters of version 1 are returned.
C29_Witness ==
    /\ pc["c1"] = "commit"
    /\ NumTxns("c1") = 2
    /\ IsSome(counters["c1"])
    /\ cs["c1"][Len(cs["c1"])].key = << LEDGER_COUNTERS_CF_NAME, 1 >>

\* The change set of an empty batch is sealed without counters.
C29_WitnessEmpty ==
    /\ pc["c1"] = "commit"
    /\ NumTxns("c1") = 0
    /\ counters["c1"] = None

\* C30: a facade call that has returned has made exactly one latency
\* observation, labelled with the api name and with Ok or Err as the result
\* it returned is Ok or an error.
C30_OneObservationPerCall ==
    (IsSome(page.result) /\ Unwrap(page.result).kind # "Panic") =>
        /\ Len(page.observations) = 1
        /\ IsSome(ApiName(page.api))
        /\ page.observations[1].api_name = Unwrap(ApiName(page.api))
        /\ page.observations[1].res_type = "Ok" <=> Unwrap(page.result).kind = "Ok"

\* A gauged call that failed made its one observation, labelled Err.
C30_GaugedObservation ==
    /\ page.api = "get_events"
    /\ IsSome(page.result)
    /\ Unwrap(page.result).kind = "TooManyRequested"
    /\ page.observations = << [ api_name |-> "get_events", res_type |-> "Err" ] >>

\* get_transaction_by_version returned a transaction and no observation was
\* made.
C30_UngaugedCall ==
    /\ page.api = "get_transaction_by_version"
    /\ IsSome(page.result)
    /\ Unwrap(page.result).kind = "Ok"
    /\ page.observations = << >>

\* The versions of the entries a range read returned.
ReturnedVersions ==
    [ i \in 1 .. Len(Unwrap(page.result).items) |-> Unwrap(page.result).items[i].version ]

\* A call of get_transactions or get_transaction_outputs that has returned.
RangeRead ==
    /\ page.api \in { "get_transactions", "get_transaction_outputs" }
    /\ IsSome(page.result)

\* The number of versions from start to ledger_version, capped by limit.
RangeCount ==
    IF page.args.limit <= page.args.ledger_version - page.args.start + 1
    THEN page.args.limit
    ELSE page.args.ledger_version - page.args.start + 1

\* What a returned list of a range read is for a request with start <=
\* ledger_version and limit > 0: RangeCount entries of the consecutive
\* versions from start, none above ledger_version.
RangeAsRequested ==
    /\ Len(ReturnedVersions) = RangeCount
    /\ \A i \in 1 .. Len(ReturnedVersions) :
          /\ ReturnedVersions[i] = page.args.start + i - 1
          /\ ReturnedVersions[i] <= page.args.ledger_version

\* C31 as stated: get_transactions and get_transaction_outputs return an
\* empty list when start > ledger_version or limit = 0, whatever the limit,
\* and otherwise, when they return a list, exactly min(limit, ledger_version
\* - start + 1) entries for the consecutive versions from start, none above
\* ledger_version.
C31_RangeReturned ==
    RangeRead =>
        IF page.args.start > page.args.ledger_version \/ page.args.limit = 0
        THEN Unwrap(page.result) = PageResult("Ok", << >>, << >>)
        ELSE Unwrap(page.result).kind = "Ok" => RangeAsRequested

\* C31 for accepted limits: with limit <= MAX_LIMIT, get_transactions and
\* get_transaction_outputs return an empty list, reading nothing, when start
\* > ledger_version or limit = 0; otherwise a list they return has exactly
\* min(limit, ledger_version - start + 1) entries for the consecutive
\* versions from start; no returned entry is of a version above
\* ledger_version.
C31_RangeReturnedWithinLimit ==
    RangeRead =>
        /\ ( /\ page.args.limit <= MAX_LIMIT
             /\ page.args.start > page.args.ledger_version \/ page.args.limit = 0 )
              => Unwrap(page.result) = PageResult("Ok", << >>, << >>)
        /\ ( /\ page.args.start <= page.args.ledger_version
             /\ page.args.limit > 0
             /\ Unwrap(page.result).kind = "Ok" ) => RangeAsRequested
        /\ Unwrap(page.result).kind = "Ok" =>
              \A i \in 1 .. Len(ReturnedVersions) :
                  ReturnedVersions[i] <= page.args.ledger_version

\* get_transaction_outputs(1, 5, 2) returned the two versions 1 and 2.
C31_Witness ==
    /\ page.api = "get_transaction_outputs"
    /\ IsSome(page.result)
    /\ page.args.start = 1 /\ page.args.limit = 5 /\ page.args.ledger_version = 2
    /\ Unwrap(page.result).kind = "Ok"
    /\ ReturnedVersions = << 1, 2 >>

\* get_transactions(3, 1, 2, false), past the ledger version, returned the
\* empty list.
C31_WitnessEmpty ==
    /\ page.api = "get_transactions"
    /\ IsSome(page.result)
    /\ page.args.start = 3 /\ page.args.limit = 1 /\ page.args.ledger_version = 2
    /\ Unwrap(page.result) = PageResult("Ok", << >>, << >>)

\* C32: the view keeps a version it was given; given none, its version is
\* PRE_GENESIS_VERSION when the persistent root is not the placeholder and
\* None when it is; is_genesis() is true exactly when no version was given
\* and the root is the placeholder; and exactly then a get that needs the
\* persistent state does not call the reader and verifies the empty proof
\* with the value None against the root.
C32_GenesisView ==
    LET root == view.latest_persistent_state_root
        placeholder == root = SPARSE_MERKLE_PLACEHOLDER_HASH
    IN  /\ IsSome(view.given_version) =>
              view.latest_persistent_version = view.given_version
        /\ (~IsSome(view.given_version) /\ ~placeholder) =>
              view.latest_persistent_version = Some(PRE_GENESIS_VERSION)
        /\ (~IsSome(view.given_version) /\ placeholder) =>
              view.latest_persistent_version = None
        /\ is_genesis(view) <=> (~IsSome(view.given_version) /\ placeholder)
        /\ \A t \in Threads :
              /\ gets[t].queried => ~is_genesis(view)
              /\ gets[t].pc = "insert_proof" =>
                    /\ gets[t].queried <=> ~is_genesis(view)
                    /\ is_genesis(view) =>
                          /\ gets[t].proof = Some(EmptyProof)
                          /\ gets[t].value = None
                          /\ verify(EmptyProof, root, gets[t].address, None)

\* In a genesis view a get of a key unknown to the overlay has verified the
\* empty proof without calling the reader.
C32_Witness ==
    /\ view.given_version = None
    /\ is_genesis(view)
    /\ \E t \in Threads :
          /\ gets[t].pc = "insert_proof"
          /\ view.speculative_state[gets[t].address].status = "Unknown"
          /\ ~gets[t].queried
          /\ gets[t].proof = Some(EmptyProof)

\* A view given no version over a root that is not the placeholder reads at
\* PRE_GENESIS_VERSION through the reader.
C32_WitnessPreGenesis ==
    /\ view.given_version = None
    /\ view.latest_persistent_version = Some(PRE_GENESIS_VERSION)
    /\ \E t \in Threads : gets[t].pc = "insert_proof" /\ gets[t].queried

\* C33: the version of the ledger info get_latest_ledger_info returns never
\* decreases, whatever save_transactions calls succeed and however they
\* interleave.
C33_LatestLedgerInfoMonotonic ==
    [][ (IsSome(latest_ledger_info) /\ IsSome(latest_ledger_info')) =>
            Unwrap(latest_ledger_info').version >= Unwrap(latest_ledger_info).version ]_vars

\* A save_transactions call has succeeded with a ledger info of a version
\* below the version of the ledger info that was the latest when it began.
C33_LatestWentBack ==
    \E p \in Committers :
        /\ result[p] = "Ok"
        /\ IsSome(Unwrap(args[p]).ledger_info_with_sigs)
        /\ IsSome(Unwrap(before[p])[2])
        /\ latest_ledger_info = Unwrap(args[p]).ledger_info_with_sigs
        /\ Unwrap(latest_ledger_info).version < Unwrap(Unwrap(before[p])[2]).version

\* The locks of which thread t holds a guard.
Held(t) ==
    { "state_cache" : x \in { t } \cap
          (locks.state_cache_readers \cup locks.state_cache_writer) }
    \cup { "state_proof_cache" : x \in { t } \cap locks.state_proof_cache_writer }

\* C34: a thread never holds guards of state_cache and of state_proof_cache
\* at the same time, holds no guard of state_cache (in particular not its
\* own read guard) while it requests the write lock of state_cache, and none
\* at all while it requests the write lock of state_proof_cache; every guard
\* is released, and with fair lock scheduling every get call returns.
C34_GetTerminates ==
    /\ [](\A t \in Threads :
            /\ Held(t) # { "state_cache", "state_proof_cache" }
            /\ (gets[t].pc = "insert" /\ locks.state_cache_writer # { t }) =>
                  Held(t) = {}
            /\ (gets[t].pc = "insert_proof" /\ locks.state_proof_cache_writer # { t }) =>
                  Held(t) = {}
            /\ gets[t].pc \notin { "insert", "insert_proof" } => Held(t) = {})
    /\ \A t \in Threads :
          /\ (Held(t) # {}) ~> (Held(t) = {})
          /\ (gets[t].pc \notin { "idle", "done" }) ~> (gets[t].pc = "done")

\* One thread holds the write guard of state_cache while the other waits
\* for it.
C34_Witness ==
    \E t \in Threads, u \in Threads :
        /\ t # u
        /\ locks.state_cache_writer = { t }
        /\ gets[u].pc = "insert"
        /\ gets[u].address = gets[t].address

\* C35: in every state, each key of state_cache that the overlay leaves to
\* persistent storage (ExistsInDB or Unknown) has in state_proof_cache a
\* proof that verifies against the persistent root for the key and the value
\* the cache holds for it; so what into_state_cache hands over has a proof
\* for each DB-resolved value.
C35_ProofWithValue ==
    \A k \in DOMAIN into_state_cache.state :
        view.speculative_state[k].status \in { "ExistsInDB", "Unknown" } =>
            /\ k \in DOMAIN into_state_cache.proofs
            /\ verify(into_state_cache.proofs[k], view.latest_persistent_state_root,
                      k, into_state_cache.proofs[k].value)
            /\ into_state_cache.state[k] =
                   OrDefault(into_state_cache.proofs[k].value)

\* A value read from persistent storage is cached with its proof while
\* another get has inserted the proof of a second key and not yet its value.
C35_Witness ==
    /\ \E k \in DOMAIN state_cache :
          /\ FromDB(k)
          /\ state_cache[k] \in { "b1", "b2" }
          /\ k \in DOMAIN state_proof_cache
    /\ \E t \in Threads :
          /\ gets[t].pc = "insert"
          /\ FromDB(gets[t].address)
          /\ gets[t].address \in DOMAIN state_proof_cache
          /\ gets[t].address \notin DOMAIN state_cache

\* The call g, about to insert into state_cache, resolved its key as not
\* existing: the overlay answered DoesNotExist, or persistent storage
\* answered None with a proof that verified.
ResolvedAbsent(g) ==
    /\ g.pc = "insert"
    /\ g.value = None
    /\ view.speculative_state[g.address].status \in
           { "DoesNotExist", "ExistsInDB", "Unknown" }

\* C36: a get that resolved its key as not existing returns None, whatever
\* the path, and leaves the key in state_cache with the default value; every
\* get that returns without error leaves its key in state_cache, and no key
\* leaves state_cache, so the state map of into_state_cache has an entry for
\* every key queried without error.
C36_AbsentKeyCached ==
    [][ /\ \A t \in Threads :
            LET g == gets[t]
                h == gets'[t]
            IN  /\ (ResolvedAbsent(g) /\ h # g) =>
                    /\ h.pc = "done"
                    /\ Unwrap(h.result).kind = "Ok"
                    /\ Unwrap(h.result).value = None
                    /\ g.address \in DOMAIN into_state_cache.state'
                    /\ into_state_cache.state'[g.address] = "default"
                /\ (h # g /\ h.pc = "done" /\ Unwrap(h.result).kind = "Ok") =>
                    h.address \in DOMAIN into_state_cache.state'
        /\ DOMAIN into_state_cache.state \subseteq DOMAIN into_state_cache.state' ]_vars

\* One key was resolved as absent by the overlay and another by persistent
\* storage; both gets returned None and both keys are in state_cache with the
\* default value.
C36_Witness ==
    /\ DOMAIN state_cache = Addresses
    /\ \A k \in Addresses : state_cache[k] = "default"
    /\ \E k \in Addresses : view.speculative_state[k].status = "DoesNotExist"
    /\ \E k \in Addresses :
          /\ FromDB(k)
          /\ k \in DOMAIN state_proof_cache
          /\ state_proof_cache[k] # EmptyProof
    /\ \A t \in Threads :
          /\ gets[t].pc = "done"
          /\ Unwrap(gets[t].result).kind = "Ok"
          /\ Unwrap(gets[t].result).value = None

\* The keys of the engine a step writes.
Written == { k \in DOMAIN db' : k \notin DOMAIN db \/ db'[k] # db[k] }

\* C37: get_latest_value returns the value the key has in the state snapshot
\* of the version of the latest in-memory ledger info, whatever versions are
\* committed above it; and a commit that writes only versions above that
\* version and leaves the latest ledger info as it is (a batch without a
\* ledger info) changes nothing in what get_latest_value returns.
C37_LatestValueAtLedgerInfo ==
    [][ /\ (page' # page /\ page'.api = "get_latest_value") =>
            LET res == Unwrap(page'.result)
                key == page'.args.state_store_key
            IN  /\ res.kind = "Ok" =>
                    /\ IsSome(latest_ledger_info)
                    /\ << JELLYFISH_MERKLE_NODE_CF_NAME,
                          Unwrap(latest_ledger_info).version >> \in DOMAIN db
                    /\ res.items =
                         << ValueIn(db[<< JELLYFISH_MERKLE_NODE_CF_NAME,
                                          Unwrap(latest_ledger_info).version >>], key) >>
                /\ ~IsSome(latest_ledger_info) => res.kind = "NotFound"
        /\ ( /\ latest_ledger_info' = latest_ledger_info
             /\ IsSome(latest_ledger_info) =>
                   \A k \in Written : k[2] > Unwrap(latest_ledger_info).version ) =>
            \A key \in Addresses :
                get_latest_value(db', latest_ledger_info', key)
                    = get_latest_value(db, latest_ledger_info, key) ]_vars

\* After the batch of version 1 was committed without a ledger info, with a
\* state that differs from the one of version 0, get_latest_value returned
\* the value of version 0, the version of the latest ledger info.
C37_Witness ==
    /\ page.api = "get_latest_value"
    /\ IsSome(latest_ledger_info)
    /\ Unwrap(latest_ledger_info).version = 0
    /\ LatestVersion(db) = Some(1)
    /\ Len(history) = 2
    /\ history[2].first_version = 1
    /\ db[<< JELLYFISH_MERKLE_NODE_CF_NAME, 1 >>] # db[<< JELLYFISH_MERKLE_NODE_CF_NAME, 0 >>]
    /\ Unwrap(page.result).kind = "Ok"
    /\ Unwrap(page.result).items =
           << ValueIn(db[<< JELLYFISH_MERKLE_NODE_CF_NAME, 0 >>], page.args.state_store_key) >>
    /\ Unwrap(page.result).items #
           << ValueIn(db[<< JELLYFISH_MERKLE_NODE_CF_NAME, 1 >>], page.args.state_store_key) >>

\* The range get_state_proof_with_ledger_info asked of get_consistency_proof
\* in the call that returned r.
ConsistencyProofAsked(r) ==
    IF r.kind = "Ok" THEN r.items[1].consistency_proof ELSE r.items[1]

\* C38: whenever get_state_proof_with_ledger_info asks for the consistency
\* proof, it asks for one from known_version to a version that is not
\* below known_version (li.version, or the version of the last epoch-ending
\* ledger info returned when more is true), in a ledger whose epoch index
\* gives each version its epoch and whose epochs end at their last version;
\* and the call never fails for an epoch change proof that is empty though
\* more is true.
C38_ConsistencyProofEnd ==
    (page.api = "get_state_proof_with_ledger_info" /\ IsSome(page.result)) =>
        LET r == Unwrap(page.result) IN
        /\ r.kind # "Error"
        /\ ( /\ r.kind \in { "Ok", "NotFound" }
             /\ r.reads # << >>
             /\ r.reads[Len(r.reads)] = "get_consistency_proof" ) =>
               /\ ConsistencyProofAsked(r).from = page.args.known_version
               /\ ConsistencyProofAsked(r).to >= page.args.known_version

\* A client at version 5, in epoch 2 of a ledger in its epoch 103, got the
\* hundred epoch changes 2 .. 101 with more = true and a consistency proof
\* up to version 203, the end of epoch 101.
C38_Witness ==
    /\ page.api = "get_state_proof_with_ledger_info"
    /\ page.args.known_version = 5
    /\ IsSome(page.result)
    /\ Unwrap(page.result).kind = "Ok"
    /\ Unwrap(page.result).items[1].epoch_change_proof.more
    /\ Len(Unwrap(page.result).items[1].epoch_change_proof.ledger_info_with_sigs)
           = MAX_NUM_EPOCH_ENDING_LEDGER_INFO
    /\ Unwrap(page.result).items[1].consistency_proof = [ from |-> 5, to |-> 203 ]

\* C39: in a call that has passed the input validation, the subtraction in
\* last_version = first_version + num_txns - 1, when it is reached, does not
\* underflow; and in an accepted call with an empty batch the range
\* first_version ..= last_version is empty and nothing is staged for any
\* version.
C39_LastVersionNoUnderflow ==
    \A p \in Committers :
        /\ ( /\ pc[p] = "impl_state"
             /\ AddOverflows(FirstVersion(p), NumTxns(p)) => ~overflow_checks ) =>
               ~SubOverflows(WrappingAdd(FirstVersion(p), NumTxns(p)), 1)
        /\ ( /\ pc[p] \notin { "idle", "done", "impl_state" }
             /\ NumTxns(p) = 0 ) =>
               /\ RangeLen(FirstVersion(p), last_version[p]) = 0
               /\ \A i \in 1 .. Len(cs[p]) : cs[p][i].key[1] \notin PerVersionCFs

\* In a build without overflow checks the empty batch at first_version 0 with
\* a ledger info of version u64::MAX has passed the validation, and
\* last_version is u64::MAX, the wrapped result of 0 + 0 - 1.
C39_Underflowed ==
    \E p \in Committers :
        /\ pc[p] = "impl_events"
        /\ ~overflow_checks
        /\ NumTxns(p) = 0
        /\ FirstVersion(p) = 0
        /\ Unwrap(LedgerInfoWithSigs(p)).version = U64_MAX
        /\ last_version[p] = U64_MAX

=============================================================================
